---------------------------- MODULE Spec2Model ----------------------------
(***************************************************************************)
(* EntryDesk tournament registration: the audit-logged athlete mutation    *)
(* pipeline (src/src/services/athlete_service.py), its audit writer        *)
(* (audit_service.py), the registration gate (config_service.py) and the   *)
(* page handlers that call them (src/pages/4_Register, 5_Athletes).        *)
(*                                                                         *)
(* Every browser session runs its Streamlit script synchronously; the      *)
(* sessions share only the hosted store.  One step of the model is one     *)
(* call to the store together with the local code that leads up to it, so  *)
(* the interleavings of the model are the interleavings of store calls of  *)
(* concurrent sessions.                                                     *)
(*                                                                         *)
(* Values that Python keeps in one variable with several types (None, a    *)
(* number, a text) are tagged records here: NoneV, Num(n), DateV(d),       *)
(* Text(kind).                                                             *)
(***************************************************************************)
EXTENDS Integers, Sequences, FiniteSets, TLC

(***************************************************************************)
(* Bounds of the model.                                                    *)
(***************************************************************************)
\* rows the athletes table may ever receive (ids 1..MaxRows)
MaxRows == 2
\* entries the audit log may hold when an operation starts
MaxAudit == 2
\* the clock runs 0..MaxTime
MaxTime == 1
\* today's date as a day ordinal; dates of birth are given relative to it
Today == 50000

(***************************************************************************)
(* Program constants.                                                      *)
(***************************************************************************)
MinNameLen == 2
MaxNameLen == 100
MinWeight == 10
MaxWeight == 200
MinAgeYears == 3
MaxAgeYears == 100
\* one year is 365.25 days: ages are compared in quarter days
QuarterDaysPerYear == 1461

BELT_RANKS ==
    << "White", "Yellow", "Orange", "Green", "Blue", "Purple", "Brown",
       "Black 1st Dan", "Black 2nd Dan", "Black 3rd Dan", "Black 4th Dan",
       "Black 5th Dan" >>

GENDERS == << "Male", "Female" >>

COMPETITION_DAYS == << "Day 1", "Day 2", "Both" >>

(***************************************************************************)
(* Tagged values.                                                          *)
(***************************************************************************)
NoneV == [kind |-> "none"]
Num(n) == [kind |-> "num", v |-> n]
DateV(d) == [kind |-> "date", v |-> d]
\* a text that is not a YYYY-MM-DD date
BadDateText == [kind |-> "text"]

Range(seq) == { seq[i] : i \in 1..Len(seq) }

(***************************************************************************)
(* str.strip() on texts written as tuples of characters.                   *)
(***************************************************************************)
RECURSIVE LStrip(_)
LStrip(t) == IF t # << >> /\ Head(t) = " " THEN LStrip(Tail(t)) ELSE t

RECURSIVE RStrip(_)
RStrip(t) ==
    IF t # << >> /\ t[Len(t)] = " " THEN RStrip(SubSeq(t, 1, Len(t) - 1)) ELSE t

Strip(t) == RStrip(LStrip(t))

(***************************************************************************)
(* validators.py                                                           *)
(***************************************************************************)
validate_athlete_name(name) ==
    IF name = << >> \/ Strip(name) = << >>
        THEN << FALSE, "Name is required" >>
    ELSE IF Len(Strip(name)) < MinNameLen
        THEN << FALSE, "Name must be at least 2 characters" >>
    ELSE IF Len(Strip(name)) > MaxNameLen
        THEN << FALSE, "Name must be less than 100 characters" >>
    ELSE << TRUE, "" >>

\* a check that would turn down the age of 100 years itself
validate_date_of_birth_below(dob) ==
    IF dob.kind = "none"
        THEN << FALSE, "Date of birth is required" >>
    ELSE IF dob.kind = "text"
        THEN << FALSE, "Invalid date format (use YYYY-MM-DD)" >>
    ELSE IF dob.v >= Today
        THEN << FALSE, "Date of birth must be in the past" >>
    ELSE IF 4 * (Today - dob.v) < MinAgeYears * QuarterDaysPerYear
        THEN << FALSE, "Athlete must be at least 3 years old" >>
    ELSE IF 4 * (Today - dob.v) >= MaxAgeYears * QuarterDaysPerYear
        THEN << FALSE, "Invalid date of birth" >>
    ELSE << TRUE, "" >>

\* age = (today - dob).days / 365.25, compared without fractions:
\* age < 3  <=>  4 * days < 3 * 1461,   age > 100  <=>  4 * days > 100 * 1461
validate_date_of_birth(dob) ==
    IF dob.kind = "none"
        THEN << FALSE, "Date of birth is required" >>
    ELSE IF dob.kind = "text"
        THEN << FALSE, "Invalid date format (use YYYY-MM-DD)" >>
    ELSE IF dob.v >= Today
        THEN << FALSE, "Date of birth must be in the past" >>
    ELSE IF 4 * (Today - dob.v) < MinAgeYears * QuarterDaysPerYear
        THEN << FALSE, "Athlete must be at least 3 years old" >>
    ELSE IF 4 * (Today - dob.v) > MaxAgeYears * QuarterDaysPerYear
        THEN << FALSE, "Invalid date of birth" >>
    ELSE << TRUE, "" >>

validate_weight(weight) ==
    IF weight.kind = "none"
        THEN << TRUE, "" >>
    ELSE IF weight.kind # "num"
        THEN << FALSE, "Weight must be a number" >>
    ELSE IF weight.v < MinWeight \/ weight.v > MaxWeight
        THEN << FALSE, "Weight must be between 10 and 200 kg" >>
    ELSE << TRUE, "" >>

validate_gender(gender) ==
    IF gender = ""
        THEN << FALSE, "Gender is required" >>
    ELSE IF gender \notin Range(GENDERS)
        THEN << FALSE, "Gender must be one of: Male, Female" >>
    ELSE << TRUE, "" >>

validate_belt_rank(belt) ==
    IF belt = ""
        THEN << FALSE, "Belt rank is required" >>
    ELSE IF belt \notin Range(BELT_RANKS)
        THEN << FALSE, "Invalid belt rank" >>
    ELSE << TRUE, "" >>

validate_competition_day(day) ==
    IF day = ""
        THEN << FALSE, "Competition day is required" >>
    ELSE IF day \notin Range(COMPETITION_DAYS)
        THEN << FALSE, "Competition day must be one of: Day 1, Day 2, Both" >>
    ELSE << TRUE, "" >>

\* an events check that would let a record without events through
validate_events_none(kata, kumite) == << TRUE, "" >>

validate_events(kata, kumite) ==
    IF ~kata /\ ~kumite
        THEN << FALSE, "At least one event (Kata or Kumite) must be selected" >>
    ELSE << TRUE, "" >>

\* a loop that would stop at the first failing check
CollectFirstError(validations) ==
    IF \A i \in 1..Len(validations) : validations[i][1] THEN << >>
    ELSE LET first == CHOOSE i \in 1..Len(validations) :
                          /\ ~validations[i][1]
                          /\ \A j \in 1..(i - 1) : validations[j][1]
         IN  << validations[first][2] >>

RECURSIVE CollectErrors(_)
\* lines 165-167: the errors of the failing checks, in the order of the list
CollectErrors(validations) ==
    IF validations = << >> THEN << >>
    ELSE IF Head(validations)[1] THEN CollectErrors(Tail(validations))
    ELSE << Head(validations)[2] >> \o CollectErrors(Tail(validations))

\* returns (is_valid, list_of_errors)
validate_athlete_data(data) ==
    LET validations ==
            << validate_athlete_name(data.full_name),
               validate_date_of_birth(data.date_of_birth),
               validate_gender(data.gender),
               validate_belt_rank(data.belt_rank),
               validate_weight(data.weight_kg),
               validate_competition_day(data.competition_day),
               validate_events(data.kata_event, data.kumite_event) >>
        errors == CollectErrors(validations)
    IN  << Len(errors) = 0, errors >>


(***************************************************************************)
(* excel_handler.py / validators.py: what a parsed spreadsheet row goes    *)
(* through before it reaches bulk_register_athletes.                       *)
(***************************************************************************)
Upper(c) ==
    CASE c = "a" -> "A" [] c = "n" -> "N" [] c = "b" -> "B" [] c = "o" -> "O"
      [] OTHER -> c

Lower(c) ==
    CASE c = "A" -> "a" [] c = "N" -> "n" [] c = "B" -> "b" [] c = "O" -> "o"
      [] OTHER -> c

IsLetter(c) == c # " "

\* str.title(): a letter that follows a non-letter is upper-cased, any other
\* letter lower-cased
Title(t) ==
    [ i \in 1..Len(t) |->
        IF i = 1 \/ ~IsLetter(t[i - 1]) THEN Upper(t[i]) ELSE Lower(t[i]) ]

Truthy(v) ==
    CASE v.kind = "none" -> FALSE
      [] v.kind = "bool" -> v.v
      [] v.kind = "num"  -> v.v # 0
      [] OTHER -> TRUE

\* normalize_athlete_data: the name is stripped and title-cased, a falsy
\* weight is left out (the service later reads it back as None)
normalize_athlete_data(data) ==
    [ data EXCEPT
        !.full_name = Title(Strip(data.full_name)),
        !.weight_kg = IF Truthy(data.weight_kg) THEN data.weight_kg ELSE NoneV ]

RECURSIVE parse_rows(_)
\* parse_excel_file, lines 99-120: the valid rows, normalised, in file order
parse_rows(rows) ==
    IF rows = << >> THEN << >>
    ELSE LET athlete_data ==
                 [ Head(rows) EXCEPT !.full_name = Strip(Head(rows).full_name) ]
         IN  IF validate_athlete_data(athlete_data)[1]
                 THEN << normalize_athlete_data(athlete_data) >>
                          \o parse_rows(Tail(rows))
                 ELSE parse_rows(Tail(rows))

(***************************************************************************)
(* The people of the model: the identity provider's users and the coaches  *)
(* table.  Each dojo has one coach; the administrator has a coach profile  *)
(* with no dojo; u4 has signed up and has no coach profile yet.            *)
(***************************************************************************)
Sessions == { 1, 2 }

Users == { "u1", "u2", "adm", "u4" }

NoUser == "none"

Email(u) == u \o "@example.org"

\* the coaches table joined with dojos(name), as load_coach_profile reads it
CoachRow(u) ==
    CASE u = "u1"  -> [ id |-> "u1", dojo_id |-> "d1", dojo_name |-> "Dojo One",
                        is_admin |-> FALSE, kind |-> "coach" ]
      [] u = "u2"  -> [ id |-> "u2", dojo_id |-> "d2", dojo_name |-> "Dojo Two",
                        is_admin |-> FALSE, kind |-> "coach" ]
      [] u = "adm" -> [ id |-> "adm", dojo_id |-> "", dojo_name |-> "Unknown",
                        is_admin |-> TRUE, kind |-> "coach" ]
      [] OTHER     -> NoneV

IsAdminUser(u) == CoachRow(u).kind = "coach" /\ CoachRow(u).is_admin

\* what the identity provider may hand to set_user_session: a user with a
\* session, or (sign-up awaiting confirmation) a new user without one
SignIns ==
    { << "u1", TRUE >>, << "u2", TRUE >>, << "adm", TRUE >>, << "u4", FALSE >> }

(***************************************************************************)
(* Sample inputs.                                                          *)
(***************************************************************************)
NameAnn == << "A", "n" >>
NameAnnPadded == << " ", "A", "n" >>
NameBo == << "b", "o" >>

RecAnn ==
    [ full_name |-> NameAnn, date_of_birth |-> DateV(Today - 4000),
      gender |-> "Female", belt_rank |-> "Green", weight_kg |-> NoneV,
      competition_day |-> "Day 1", kata_event |-> TRUE, kumite_event |-> FALSE ]

RecAnnPadded == [ RecAnn EXCEPT !.full_name = NameAnnPadded ]

RecBo ==
    [ RecAnn EXCEPT !.full_name = NameBo, !.gender = "Male",
                    !.weight_kg = Num(50), !.kumite_event = TRUE ]

RecNoEvents == [ RecAnn EXCEPT !.kata_event = FALSE ]

RecBad == [ RecBo EXCEPT !.weight_kg = Num(5), !.gender = "" ]

RegisterInputs == { RecAnn, RecAnnPadded, RecNoEvents }

BulkInputs == { << RecAnn, RecBad, RecAnnPadded >>, << RecBo >> }

UpdateInputs ==
    { [ belt_rank |-> "Blue", weight_kg |-> NoneV, competition_day |-> "Both",
        kata_event |-> FALSE, kumite_event |-> FALSE ] }

(***************************************************************************)
(* Python values of the config table.  A str is written by what it holds:  *)
(* the JSON texts "true", "false", "null", or an ISO timestamp ("iso", for *)
(* the time t), as the Settings page saves the deadline.                   *)
(***************************************************************************)
BoolV(b) == [kind |-> "bool", v |-> b]
StrV(text, t) == [kind |-> "str", s |-> text, t |-> t]
IsoStr(t) == StrV("iso", t)

\* the dict of the two tournament days the Settings page saves
DatesV == [kind |-> "dict"]

\* json.dumps of the values the Settings page passes to update_config
json_dumps(v) ==
    CASE v.kind = "bool" -> StrV(IF v.v THEN "true" ELSE "false", 0)
      [] v.kind = "dict" -> StrV("{dates}", 0)
      [] OTHER -> StrV("null", 0)

\* json.loads of a stored text: << parsed, value >>
json_loads(text) ==
    CASE text.s = "true"    -> << TRUE, BoolV(TRUE) >>
      [] text.s = "false"   -> << TRUE, BoolV(FALSE) >>
      [] text.s = "null"    -> << TRUE, NoneV >>
      [] text.s = "{dates}" -> << TRUE, DatesV >>
      [] text.s = "123"     -> << TRUE, Num(123) >>
      [] OTHER              -> << FALSE, text >>

ConfigKeys == { "registration_open", "registration_deadline" }

\* the deadline the administrator may save
DeadlineTime == 0

ConfigInputs ==
    { << "registration_open", BoolV(FALSE) >>,
      << "registration_open", BoolV(TRUE) >>,
      << "registration_deadline", IsoStr(DeadlineTime) >> }

(***************************************************************************)
(* State.                                                                  *)
(***************************************************************************)
VARIABLES
    athletes,       \* the live rows of the athletes table
    audit_logs,     \* the audit_logs table, in insertion order
    next_id,        \* the id the store gives the next athlete row
    config,         \* the config table: key -> stored text, NoneV if no row
    cache,          \* st.cache_data of get_config: key -> miss or hit(value)
    now,            \* the clock
    session_state,  \* per browser session: st.session_state user/session/coach
    pc,             \* per session: where its running handler stands
    call,           \* per session: the locals of the running handler
    res,            \* per session: what the finished handler returned
    allowed_emails, \* the allowed_emails table: user of the email -> entry
    coaches,        \* the coaches table: user id -> row, NoneV if no row
    cookies         \* per browser: the user of the supabase_session cookie

vars ==
    << athletes, audit_logs, next_id, config, cache, now, session_state, pc,
       call, res, allowed_emails, coaches, cookies >>

\* the tables and the cookie that only the access pages touch
auth_vars == << allowed_emails, coaches, cookies >>

Miss == [kind |-> "miss"]
Hit(v) == [kind |-> "hit", v |-> v]

\* init_session_state's defaults
LoggedOut ==
    [user |-> NoUser, session |-> FALSE, coach |-> NoneV, is_admin |-> FALSE]

\* an entry of allowed_emails
Entry(is_admin) == [kind |-> "entry", is_admin |-> is_admin]

\* the store the sessions start from: everybody of Users is on the
\* whitelist, the administrator as admin; the coaches have their profiles;
\* a browser holds the cookie of the session it is signed in with
AuthInit ==
    /\ allowed_emails = [ u \in Users |-> Entry(IsAdminUser(u)) ]
    /\ coaches = [ u \in Users |-> CoachRow(u) ]
    /\ cookies = [ s \in Sessions |->
                     IF session_state[s].session THEN session_state[s].user
                     ELSE NoUser ]

\* The locals of a handler (op, rec, id, batch, results) and the record of
\* what the handler has done to the store so far: ath_writes and aud_writes
\* count the rows it wrote in athletes and the entries it added to
\* audit_logs, lookup_failed says a duplicate lookup of it raised,
\* audit_failed that its audit write did, row is the row its update
\* returned, removed the row its delete took away.
NoCall ==
    [ op |-> "none", rec |-> NoneV, id |-> 0, batch |-> << >>,
      results |-> << >>, ath_writes |-> 0, aud_writes |-> 0,
      lookup_failed |-> FALSE, audit_failed |-> FALSE, row |-> NoneV,
      removed |-> NoneV ]

Init ==
    /\ athletes = { }
    /\ audit_logs = << >>
    /\ next_id = 1
    /\ config = [ k \in ConfigKeys |->
                    IF k = "registration_open" THEN json_dumps(BoolV(TRUE))
                    ELSE NoneV ]
    /\ cache = [ k \in ConfigKeys |-> Miss ]
    /\ now = 0
    /\ session_state = [ s \in Sessions |-> LoggedOut ]
    /\ pc = [ s \in Sessions |-> "idle" ]
    /\ call = [ s \in Sessions |-> NoCall ]
    /\ res = [ s \in Sessions |-> NoneV ]
    /\ AuthInit

(***************************************************************************)
(* session.py                                                              *)
(***************************************************************************)
get_current_user(s) == session_state[s].user

\* a profile lookup that would fall back on the first coach's profile
get_current_coach_any(s) ==
    IF session_state[s].coach = NoneV THEN CoachRow("u1")
    ELSE IF session_state[s].coach.dojo_id = "" THEN CoachRow("u1")
    ELSE session_state[s].coach

get_current_coach(s) == session_state[s].coach

\* load_coach_profile: the coaches row of the signed-in user, if there is one
load_coach_profile(u) == CoachRow(u)

\* set_user_session(user, session): the login page calls it only while no
\* user is signed in
\* the session state set_user_session leaves
Signed(u, has_session) ==
    [ user |-> u, session |-> has_session, coach |-> load_coach_profile(u),
      is_admin |-> IsAdminUser(u) ]

set_user_session(s, u, has_session) ==
    /\ pc[s] = "idle"
    /\ session_state[s].user = NoUser
    /\ session_state' = [ session_state EXCEPT ![s] = Signed(u, has_session) ]
    /\ cookies' = [ cookies EXCEPT ![s] = IF has_session THEN u ELSE @ ]
    /\ UNCHANGED << athletes, audit_logs, next_id, config, cache, now, pc,
                    call, res, allowed_emails, coaches >>

clear_session(s) ==
    /\ pc[s] = "idle"
    /\ session_state[s].user # NoUser
    /\ session_state' = [ session_state EXCEPT ![s] = LoggedOut ]
    /\ cookies' = [ cookies EXCEPT ![s] = NoUser ]
    /\ UNCHANGED << athletes, audit_logs, next_id, config, cache, now, pc,
                    call, res, allowed_emails, coaches >>

(***************************************************************************)
(* The store's row-level security on athletes: a row is visible to, and    *)
(* may be changed by, the coach who registered it and by administrators.   *)
(***************************************************************************)
\* a store without row-level security: every row is everybody's
RlsAllowsAll(u, row) == TRUE

RlsAllows(u, row) == IsAdminUser(u) \/ row.coach_id = u

RlsConfigWrite(u) == IsAdminUser(u)

(***************************************************************************)
(* config_service.py                                                       *)
(***************************************************************************)
\* get_config(key) through st.cache_data: << value, cache afterwards >>.
\* read_ok says whether the store answered; a failed read returns None, and
\* the cache keeps that return like any other.
get_config(c, key, read_ok) ==
    IF c[key].kind = "hit" THEN << c[key].v, c >>
    ELSE LET value ==
                 IF ~read_ok \/ config[key].kind = "none" THEN NoneV
                 ELSE json_loads(config[key])[2]
         IN  << value, [ c EXCEPT ![key] = Hit(value) ] >>

\* is_registration_open(): << open, cache afterwards >>
is_registration_open(c, ok1, ok2) ==
    LET r1 == get_config(c, "registration_open", ok1)
        r2 == get_config(r1[2], "registration_deadline", ok2)
        deadline_str == r2[1]
    IN  IF ~Truthy(r1[1]) THEN << FALSE, r1[2] >>
        ELSE IF /\ Truthy(deadline_str)
                /\ deadline_str.kind = "str"
                /\ deadline_str.s = "iso"
                /\ now > deadline_str.t
            THEN << FALSE, r2[2] >>
        ELSE << TRUE, r2[2] >>

(***************************************************************************)
(* What a call to the store may do.  A select answers or raises; a write   *)
(* answers with the written rows ("ok"), answers with no row and writes    *)
(* nothing ("empty"), or raises ("error").  An insert of a triple that is  *)
(* already live may also be refused by a uniqueness constraint ("unique"), *)
(* if the deployed schema has one.                                         *)
(***************************************************************************)
ReadOutcomes == { TRUE, FALSE }

WriteOutcomes == { "ok", "empty", "error" }

\* an update or a delete answers with the rows it touched, or raises
StatementOutcomes == { "ok", "error" }

SameTriple(a, b) ==
    /\ a.full_name = b.full_name
    /\ a.date_of_birth = b.date_of_birth
    /\ a.dojo_id = b.dojo_id

InsertOutcomes(data) ==
    WriteOutcomes
        \cup IF \E r \in athletes : SameTriple(r, data) THEN { "unique" } ELSE { }

Result(success, error, value) ==
    [ kind |-> "result", success |-> success, error |-> error, value |-> value ]

\* the handler of session s returns result
Finish(s, result, c) ==
    /\ pc' = [ pc EXCEPT ![s] = "done" ]
    /\ res' = [ res EXCEPT ![s] = result ]
    /\ call' = [ call EXCEPT ![s] = c ]

\* a new handler may start: the session is idle and the log has room
CanStart(s) ==
    /\ pc[s] = "idle"
    /\ Len(audit_logs) < MaxAudit

\* the script run is over; the next user action may start one
Return(s) ==
    /\ pc[s] = "done"
    /\ pc' = [ pc EXCEPT ![s] = "idle" ]
    /\ call' = [ call EXCEPT ![s] = NoCall ]
    /\ res' = [ res EXCEPT ![s] = NoneV ]
    /\ UNCHANGED << athletes, audit_logs, next_id, config, cache, now,
                    session_state,
                    auth_vars >>

(***************************************************************************)
(* audit_service.py                                                        *)
(***************************************************************************)
AuditEntry(s, action, athlete_data) ==
    [ action |-> action, athlete_data |-> athlete_data,
      coach_id |-> get_current_user(s),
      coach_email |-> Email(get_current_user(s)),
      dojo_name |-> get_current_coach(s).dojo_name ]

\* an audit writer that would keep only the newest entry
create_audit_log_overwrite(s, action, athlete_data, outcome) ==
    IF ~session_state[s].session THEN << FALSE, audit_logs >>
    ELSE IF outcome = "ok"
        THEN << TRUE, << AuditEntry(s, action, athlete_data) >> >>
    ELSE << FALSE, audit_logs >>

\* create_audit_log: << returned bool, audit_logs afterwards >>
create_audit_log(s, action, athlete_data, outcome) ==
    IF ~session_state[s].session THEN << FALSE, audit_logs >>
    ELSE IF outcome = "ok"
        THEN << TRUE, Append(audit_logs, AuditEntry(s, action, athlete_data)) >>
    ELSE << FALSE, audit_logs >>

\* the locals of a handler after its audit write
AfterAudit(c, written) ==
    [ c EXCEPT !.aud_writes = @ + Len(audit_logs') - Len(audit_logs),
               !.audit_failed = ~written ]

\* a mutation that would report the failure of its audit write as its own
MutationResultNeedsAudit(audit_written, value) ==
    IF audit_written THEN Result(TRUE, "", value)
    ELSE Result(FALSE, "audit write failed", NoneV)

\* the success a mutation returns once its primary write is done: the
\* outcome of the audit write is not looked at
MutationResult(audit_written, value) == Result(TRUE, "", value)

(***************************************************************************)
(* athlete_service.py: check_duplicate_athlete                             *)
(***************************************************************************)
\* a lookup that would find no row whatever the table holds
check_duplicate_never(s, full_name, date_of_birth, dojo_id, read_ok) == FALSE

\* the lookup without the strip() of line 38: a padded name finds nothing
check_duplicate_unstripped(s, full_name, date_of_birth, dojo_id, read_ok) ==
    IF ~session_state[s].session THEN FALSE
    ELSE IF ~read_ok THEN FALSE
    ELSE \E r \in athletes :
            /\ RlsAllows(get_current_user(s), r)
            /\ r.full_name = full_name
            /\ r.date_of_birth = date_of_birth
            /\ (dojo_id # "" => r.dojo_id = dojo_id)

check_duplicate_athlete(s, full_name, date_of_birth, dojo_id, read_ok) ==
    IF ~session_state[s].session THEN FALSE
    ELSE IF ~read_ok THEN FALSE
    ELSE \E r \in athletes :
            /\ RlsAllows(get_current_user(s), r)
            /\ r.full_name = Strip(full_name)
            /\ r.date_of_birth = date_of_birth
            /\ (dojo_id # "" => r.dojo_id = dojo_id)

\* the locals of a handler after a duplicate lookup that let it go on
Looked(c, read_ok) == [ c EXCEPT !.lookup_failed = @ \/ ~read_ok ]

\* the dojo id the Register page reads at its top (line 39)
PageDojoId(s) ==
    IF get_current_coach(s).kind = "coach" THEN get_current_coach(s).dojo_id
    ELSE ""

\* a row dict that would not carry the dojo of the acting coach
InsertDataUnscoped(s, athlete_data) ==
    [ coach_id |-> get_current_user(s),
      dojo_id |-> "",
      full_name |-> Strip(athlete_data.full_name),
      date_of_birth |-> athlete_data.date_of_birth,
      gender |-> athlete_data.gender,
      belt_rank |-> athlete_data.belt_rank,
      weight_kg |-> athlete_data.weight_kg,
      competition_day |-> athlete_data.competition_day,
      kata_event |-> athlete_data.kata_event,
      kumite_event |-> athlete_data.kumite_event ]

\* the row dict register_athlete and bulk_register_athletes build
InsertData(s, athlete_data) ==
    [ coach_id |-> get_current_user(s),
      dojo_id |-> get_current_coach(s).dojo_id,
      full_name |-> Strip(athlete_data.full_name),
      date_of_birth |-> athlete_data.date_of_birth,
      gender |-> athlete_data.gender,
      belt_rank |-> athlete_data.belt_rank,
      weight_kg |-> athlete_data.weight_kg,
      competition_day |-> athlete_data.competition_day,
      kata_event |-> athlete_data.kata_event,
      kumite_event |-> athlete_data.kumite_event ]

\* the row the store keeps for an inserted dict
StoredRow(data, id) == [ id |-> id, updated_at |-> NoneV ] @@ data

(***************************************************************************)
(* Register: the submit handler of the Register page (4_Register.py,       *)
(* lines 56-60 and 129-160) and register_athlete.                          *)
(***************************************************************************)
\* a page that would not look at the validators' verdict
SubmitValidationSkipped(athlete_data) == << TRUE, << >> >>

\* the page's call of the validators on the submitted form (line 143)
SubmitValidation(athlete_data) == validate_athlete_data(athlete_data)

\* the page run up to its first store call: the registration gate, then
\* validate_athlete_data
RegisterSubmit(s, athlete_data, ok1, ok2) ==
    LET gate == is_registration_open(cache, ok1, ok2)
        validation == SubmitValidation(athlete_data)
        c == [ NoCall EXCEPT !.op = "register", !.rec = athlete_data ]
    IN  /\ CanStart(s)
        /\ cache' = gate[2]
        /\ IF ~gate[1]
               THEN Finish(s, Result(FALSE, "Registration is currently closed",
                                     NoneV), c)
           ELSE IF ~validation[1]
               THEN Finish(s, Result(FALSE, "validation", validation[2]), c)
           ELSE /\ pc' = [ pc EXCEPT ![s] = "reg_page_dup" ]
                /\ call' = [ call EXCEPT ![s] = c ]
                /\ UNCHANGED res
        /\ UNCHANGED << athletes, audit_logs, next_id, config, now,
                        session_state,
                    auth_vars >>

\* the page's own duplicate check (line 150), then register_athlete's
\* checks of the actor (lines 56-64)
RegisterPageDup(s, read_ok) ==
    LET d == call[s].rec
        user == get_current_user(s)
        coach == get_current_coach(s)
    IN  /\ pc[s] = "reg_page_dup"
        /\ IF check_duplicate_athlete(s, d.full_name, d.date_of_birth,
                                      PageDojoId(s), read_ok)
               THEN Finish(s, Result(FALSE,
                        "An athlete with this date of birth already exists in your dojo",
                        NoneV), call[s])
           ELSE IF user = NoUser \/ coach.kind # "coach"
               THEN Finish(s, Result(FALSE, "Not authenticated", NoneV), call[s])
           ELSE IF coach.dojo_id = ""
               THEN Finish(s, Result(FALSE,
                        "No dojo associated with your account", NoneV), call[s])
           ELSE /\ pc' = [ pc EXCEPT ![s] = "reg_svc_dup" ]
                /\ call' = [ call EXCEPT ![s] = Looked(call[s], read_ok) ]
                /\ UNCHANGED res
        /\ UNCHANGED << athletes, audit_logs, next_id, config, cache, now,
                        session_state,
                    auth_vars >>

\* register_athlete, lines 66-79
RegisterSvcDup(s, read_ok) ==
    LET d == call[s].rec IN
    /\ pc[s] = "reg_svc_dup"
    /\ IF check_duplicate_athlete(s, d.full_name, d.date_of_birth,
                                  get_current_coach(s).dojo_id, read_ok)
           THEN Finish(s, Result(FALSE,
                    "Athlete with this date of birth already exists in your dojo",
                    NoneV), call[s])
       ELSE IF ~session_state[s].session
           THEN Finish(s, Result(FALSE, "Not authenticated", NoneV), call[s])
       ELSE /\ pc' = [ pc EXCEPT ![s] = "reg_insert" ]
            /\ call' = [ call EXCEPT ![s] = Looked(call[s], read_ok) ]
            /\ UNCHANGED res
    /\ UNCHANGED << athletes, audit_logs, next_id, config, cache, now,
                    session_state,
                    auth_vars >>

\* a store that would keep the row of an insert whatever it answers
InsertStoresAlways(outcome) == TRUE

\* the store keeps the row of an insert exactly when it answers with it
InsertStores(outcome) == outcome = "ok"

\* the table has received MaxRows rows: an insert can only fail
HasRoom(outcome) == InsertStores(outcome) => next_id <= MaxRows

\* the locals of a handler after a write to athletes: the rows the write
\* added, changed or removed are counted
Wrote(c) ==
    [ c EXCEPT !.ath_writes =
                   @ + Cardinality((athletes' \ athletes) \cup (athletes \ athletes')) ]

\* str(e) of the exception an insert raises: the store's message of a
\* uniqueness violation, or that of any other fault
UniqueViolationText == "duplicate key value violates unique constraint"

ExceptionText(outcome) ==
    IF outcome = "unique" THEN UniqueViolationText ELSE "storage error"

\* what register_athlete returns when the insert did not give a row
InsertFailure(outcome) ==
    CASE outcome = "empty"  -> Result(FALSE, "Failed to register athlete", NoneV)
      [] outcome = "unique" -> Result(FALSE, "Athlete already exists", NoneV)
      [] OTHER              -> Result(FALSE, "storage error", NoneV)

\* register_athlete, lines 84-98 and 111-121
RegisterInsert(s, outcome) ==
    LET data == InsertData(s, call[s].rec)
        row == StoredRow(data, next_id)
    IN  /\ pc[s] = "reg_insert"
        /\ outcome \in InsertOutcomes(data)
        /\ HasRoom(outcome)
        /\ athletes' = IF InsertStores(outcome) THEN athletes \cup { row }
                       ELSE athletes
        /\ next_id' = IF InsertStores(outcome) THEN next_id + 1 ELSE next_id
        /\ IF outcome = "ok"
               THEN /\ pc' = [ pc EXCEPT ![s] = "reg_audit" ]
                    /\ call' = [ call EXCEPT ![s] = Wrote([ @ EXCEPT !.rec = row ]) ]
                    /\ UNCHANGED res
           ELSE Finish(s, InsertFailure(outcome), Wrote(call[s]))
        /\ UNCHANGED << audit_logs, config, cache, now, session_state,
                    auth_vars >>

\* register_athlete, lines 100-110: the audit entry carries the dict that was
\* sent to the store, the caller gets the row the store returned
RegisterAudit(s, outcome) ==
    LET row == call[s].rec
        data == [ f \in DOMAIN row \ { "id", "updated_at" } |-> row[f] ]
        audit == create_audit_log(s, "REGISTER", data, outcome)
    IN  /\ pc[s] = "reg_audit"
        /\ audit_logs' = audit[2]
        /\ Finish(s, MutationResult(audit[1], row), AfterAudit(call[s], audit[1]))
        /\ UNCHANGED << athletes, next_id, config, cache, now, session_state,
                    auth_vars >>

(***************************************************************************)
(* BulkRegister: the "Register All" run of the Register page                *)
(* (4_Register.py, lines 56-60, 204-255) and bulk_register_athletes.       *)
(***************************************************************************)
\* a summary that would take every outcome for a success
SuccessesAll(results) == results

\* lines 205 and 217-222: the outcomes with success True
Successes(results) == SelectSeq(results, LAMBDA r : r.success)

BulkSummary(results) ==
    Result(TRUE, "",
           [ successful |-> Len(Successes(results)),
             failed |-> Len(results) - Len(Successes(results)),
             results |-> results ])

\* the gate, parse_excel_file, then bulk_register_athletes, lines 129-149;
\* rec keeps the rows of the uploaded file, batch the records still to process
BulkSubmit(s, rows, ok1, ok2) ==
    LET gate == is_registration_open(cache, ok1, ok2)
        parsed == parse_rows(rows)
        user == get_current_user(s)
        coach == get_current_coach(s)
        c == [ NoCall EXCEPT !.op = "bulk", !.rec = rows, !.batch = parsed ]
    IN  /\ CanStart(s)
        /\ next_id + Len(parsed) <= MaxRows + 1
        /\ cache' = gate[2]
        /\ IF ~gate[1]
               THEN Finish(s, Result(FALSE, "Registration is currently closed",
                                     NoneV), c)
           ELSE IF parsed = << >>
               THEN Finish(s, Result(FALSE, "No valid athletes found", NoneV), c)
           ELSE IF user = NoUser \/ coach.kind # "coach"
               THEN Finish(s, Result(FALSE, "Not authenticated", << >>), c)
           ELSE IF coach.dojo_id = ""
               THEN Finish(s, Result(FALSE,
                        "No dojo associated with your account", << >>), c)
           ELSE IF ~session_state[s].session
               THEN Finish(s, Result(FALSE, "Not authenticated", << >>), c)
           ELSE /\ pc' = [ pc EXCEPT ![s] = "bulk_dup" ]
                /\ call' = [ call EXCEPT ![s] = c ]
                /\ UNCHANGED res
        /\ UNCHANGED << athletes, audit_logs, next_id, config, now,
                        session_state,
                    auth_vars >>

\* after one record of the batch: on to the next one, or past the loop
BulkAdvance(s, c) ==
    IF c.batch # << >>
        THEN /\ pc' = [ pc EXCEPT ![s] = "bulk_dup" ]
             /\ call' = [ call EXCEPT ![s] = c ]
             /\ UNCHANGED res
    ELSE IF Len(Successes(c.results)) > 0
        THEN /\ pc' = [ pc EXCEPT ![s] = "bulk_audit" ]
             /\ call' = [ call EXCEPT ![s] = c ]
             /\ UNCHANGED res
    ELSE Finish(s, BulkSummary(c.results), c)

\* lines 151-164: the duplicate check of the next record
BulkDup(s, read_ok) ==
    LET d == Head(call[s].batch) IN
    /\ pc[s] = "bulk_dup"
    /\ IF check_duplicate_athlete(s, d.full_name, d.date_of_birth,
                                  get_current_coach(s).dojo_id, read_ok)
           THEN BulkAdvance(s,
                    [ call[s] EXCEPT
                        !.batch = Tail(@),
                        !.results = Append(@,
                            [ name |-> d.full_name, success |-> FALSE,
                              error |-> "Duplicate - already exists" ]) ])
       ELSE /\ pc' = [ pc EXCEPT ![s] = "bulk_insert" ]
            /\ call' = [ call EXCEPT ![s] = Looked(call[s], read_ok) ]
            /\ UNCHANGED res
    /\ UNCHANGED << athletes, audit_logs, next_id, config, cache, now,
                    session_state,
                    auth_vars >>

\* lines 166-202: the insert of the next record
BulkInsert(s, outcome) ==
    LET d == Head(call[s].batch)
        data == InsertData(s, d)
        row == StoredRow(data, next_id)
    IN  /\ pc[s] = "bulk_insert"
        /\ outcome \in InsertOutcomes(data)
        /\ HasRoom(outcome)
        /\ athletes' = IF InsertStores(outcome) THEN athletes \cup { row }
                       ELSE athletes
        /\ next_id' = IF InsertStores(outcome) THEN next_id + 1 ELSE next_id
        /\ IF outcome = "ok"
               THEN BulkAdvance(s,
                        [ Wrote(call[s]) EXCEPT
                            !.batch = Tail(@),
                            !.results = Append(@,
                                [ name |-> d.full_name, success |-> TRUE,
                                  error |-> "" ]) ])
           ELSE BulkAdvance(s,
                    [ Wrote(call[s]) EXCEPT
                        !.batch = Tail(@),
                        !.results = Append(@,
                            [ name |-> d.full_name, success |-> FALSE,
                              error |-> IF outcome = "empty"
                                            THEN "Insert failed"
                                            ELSE ExceptionText(outcome) ]) ])
        /\ UNCHANGED << audit_logs, config, cache, now, session_state,
                    auth_vars >>

\* lines 204-222
BulkAudit(s, outcome) ==
    LET ok == Successes(call[s].results)
        payload == [ count |-> Len(ok),
                     athletes |-> [ i \in 1..Len(ok) |-> ok[i].name ] ]
        audit == create_audit_log(s, "BULK_REGISTER", payload, outcome)
    IN  /\ pc[s] = "bulk_audit"
        /\ audit_logs' = audit[2]
        /\ Finish(s, BulkSummary(call[s].results),
                  AfterAudit(call[s], audit[1]))
        /\ UNCHANGED << athletes, next_id, config, cache, now, session_state,
                    auth_vars >>

(***************************************************************************)
(* Update: update_athlete.                                                 *)
(***************************************************************************)
\* an update that would also take the row away from its coach
ApplyChangesDisowning(row, changes) ==
    [ f \in DOMAIN row |->
        IF f \in DOMAIN changes THEN changes[f]
        ELSE IF f = "coach_id" THEN NoUser
        ELSE row[f] ]

\* the fields of row overwritten by those of changes
ApplyChanges(row, changes) ==
    [ f \in DOMAIN row |-> IF f \in DOMAIN changes THEN changes[f] ELSE row[f] ]

\* lines 276-298 and 312-316: the actor checks and the update of the row
UpdateWrite(s, athlete_id, changes, outcome) ==
    LET user == get_current_user(s)
        updated_data == [ updated_at |-> Num(now) ] @@ changes
        hit == { r \in athletes : r.id = athlete_id /\ RlsAllows(user, r) }
        c == [ NoCall EXCEPT !.op = "update", !.id = athlete_id,
                             !.rec = updated_data ]
    IN  /\ CanStart(s)
        /\ IF user = NoUser \/ get_current_coach(s).kind # "coach"
               THEN /\ Finish(s, Result(FALSE, "Not authenticated", NoneV), c)
                    /\ UNCHANGED athletes
           ELSE IF ~session_state[s].session
               THEN /\ Finish(s, Result(FALSE, "Not authenticated", NoneV), c)
                    /\ UNCHANGED athletes
           ELSE IF outcome = "error"
               THEN /\ Finish(s, Result(FALSE, "storage error", NoneV), c)
                    /\ UNCHANGED athletes
           ELSE IF hit = { }
               THEN /\ Finish(s, Result(FALSE, "Update failed", NoneV), c)
                    /\ UNCHANGED athletes
           ELSE /\ athletes' =
                       (athletes \ hit)
                           \cup { ApplyChanges(r, updated_data) : r \in hit }
                /\ pc' = [ pc EXCEPT ![s] = "upd_audit" ]
                /\ call' = [ call EXCEPT
                               ![s] = [ c EXCEPT
                                          !.ath_writes = Cardinality(hit),
                                          !.row = ApplyChanges(CHOOSE r \in hit : TRUE,
                                                               updated_data) ] ]
                /\ UNCHANGED res
        /\ UNCHANGED << audit_logs, next_id, config, cache, now, session_state,
                    auth_vars >>

\* lines 298-311
UpdateAudit(s, outcome) ==
    LET payload == [ athlete_id |-> call[s].id, changes |-> call[s].rec ]
        audit == create_audit_log(s, "UPDATE", payload, outcome)
    IN  /\ pc[s] = "upd_audit"
        /\ audit_logs' = audit[2]
        /\ Finish(s, MutationResult(audit[1], call[s].row),
                  AfterAudit(call[s], audit[1]))
        /\ UNCHANGED << athletes, next_id, config, cache, now, session_state,
                    auth_vars >>

(***************************************************************************)
(* Delete: delete_athlete.                                                 *)
(***************************************************************************)
\* a delete that would not look at what the fetch returned
NotFoundNever(found) == FALSE

\* line 343: "if not fetch_result.data"
NotFound(found) == found = { }

\* a fetch that would select the id alone, as the duplicate lookup does
DeleteSnapshotIdOnly(found) ==
    IF found = { } THEN NoneV ELSE [ id |-> (CHOOSE r \in found : TRUE).id ]

\* line 346: fetch_result.data[0], the whole row as select('*') gave it
DeleteSnapshot(found) ==
    IF found = { } THEN NoneV ELSE CHOOSE r \in found : TRUE

\* lines 324-346: the actor checks and the fetch of the row
DeleteFetch(s, athlete_id, read_ok) ==
    LET user == get_current_user(s)
        found == { r \in athletes : r.id = athlete_id /\ RlsAllows(user, r) }
        c == [ NoCall EXCEPT !.op = "delete", !.id = athlete_id ]
    IN  /\ CanStart(s)
        /\ IF user = NoUser \/ get_current_coach(s).kind # "coach"
               THEN Finish(s, Result(FALSE, "Not authenticated", NoneV), c)
           ELSE IF ~session_state[s].session
               THEN Finish(s, Result(FALSE, "Not authenticated", NoneV), c)
           ELSE IF ~read_ok
               THEN Finish(s, Result(FALSE, "storage error", NoneV), c)
           ELSE IF NotFound(found)
               THEN Finish(s, Result(FALSE, "Athlete not found", NoneV), c)
           ELSE /\ pc' = [ pc EXCEPT ![s] = "del_delete" ]
                /\ call' = [ call EXCEPT
                               ![s] = [ c EXCEPT !.rec = DeleteSnapshot(found) ] ]
                /\ UNCHANGED res
        /\ UNCHANGED << athletes, audit_logs, next_id, config, cache, now,
                        session_state,
                    auth_vars >>

\* lines 348-352 and 365-366: the delete; its result is not looked at
DeleteRow(s, outcome) ==
    LET gone == { r \in athletes :
                    r.id = call[s].id /\ RlsAllows(get_current_user(s), r) }
    IN  /\ pc[s] = "del_delete"
        /\ IF outcome = "error"
               THEN /\ Finish(s, Result(FALSE, "storage error", NoneV), call[s])
                    /\ UNCHANGED athletes
           ELSE /\ athletes' = athletes \ gone
                /\ pc' = [ pc EXCEPT ![s] = "del_audit" ]
                /\ call' = [ call EXCEPT
                               ![s] = [ Wrote(@) EXCEPT
                                          !.removed = DeleteSnapshot(gone) ] ]
                /\ UNCHANGED res
        /\ UNCHANGED << audit_logs, next_id, config, cache, now, session_state,
                    auth_vars >>

\* lines 354-363
DeleteAudit(s, outcome) ==
    LET audit == create_audit_log(s, "DELETE", call[s].rec, outcome) IN
    /\ pc[s] = "del_audit"
    /\ audit_logs' = audit[2]
    /\ Finish(s, MutationResult(audit[1], NoneV), AfterAudit(call[s], audit[1]))
    /\ UNCHANGED << athletes, next_id, config, cache, now, session_state,
                    auth_vars >>

(***************************************************************************)
(* config_service.py: update_config, and what else moves the gate.         *)
(***************************************************************************)
\* update_config(key, value), lines 76-105
update_config(s, key, value, outcome) ==
    LET user == get_current_user(s)
        stored == IF value.kind = "str" THEN value ELSE json_dumps(value)
        c == [ NoCall EXCEPT !.op = "config",
                             !.rec = [ key |-> key, value |-> value ] ]
    IN  /\ pc[s] = "idle"
        /\ IF user = NoUser
               THEN /\ Finish(s, Result(FALSE, "Not authenticated", NoneV), c)
                    /\ UNCHANGED << config, cache >>
           ELSE IF ~session_state[s].session
                   \/ outcome = "error" \/ ~RlsConfigWrite(user)
               THEN /\ Finish(s, Result(FALSE, "storage error", NoneV), c)
                    /\ UNCHANGED << config, cache >>
           ELSE IF outcome = "empty"
               THEN /\ Finish(s, Result(FALSE, "Update failed", NoneV), c)
                    /\ UNCHANGED << config, cache >>
           ELSE /\ config' = [ config EXCEPT ![key] = stored ]
                /\ cache' = [ k \in DOMAIN cache |-> Miss ]
                /\ Finish(s, Result(TRUE, "", NoneV), c)
        /\ UNCHANGED << athletes, audit_logs, next_id, now, session_state,
                    auth_vars >>

\* the 60 seconds of st.cache_data(ttl=60) are over for one key
CacheExpire(key) ==
    /\ cache[key].kind = "hit"
    /\ cache' = [ cache EXCEPT ![key] = Miss ]
    /\ UNCHANGED << athletes, audit_logs, next_id, config, now, session_state,
                    pc, call, res,
                    auth_vars >>

Tick ==
    /\ now < MaxTime
    /\ now' = now + 1
    /\ UNCHANGED << athletes, audit_logs, next_id, config, cache,
                    session_state, pc, call, res,
                    auth_vars >>

(***************************************************************************)
(* audit_service.py: get_audit_logs.  Only administrators read the log.    *)
(***************************************************************************)
RECURSIVE Reverse(_)
Reverse(q) == IF q = << >> THEN << >> ELSE Append(Reverse(Tail(q)), Head(q))

LogLimits == { 1, 100 }

ActionFilters == { "All", "DELETE" }

get_audit_logs(s, limit, action_filter, read_ok) ==
    LET user == get_current_user(s)
        matching ==
            SelectSeq(audit_logs,
                      LAMBDA e : action_filter = "All" \/ e.action = action_filter)
        newest == Reverse(matching)
        rows == IF Len(newest) > limit THEN SubSeq(newest, 1, limit) ELSE newest
        c == [ NoCall EXCEPT !.op = "logs" ]
    IN  /\ pc[s] = "idle"
        /\ IF ~session_state[s].session \/ ~read_ok \/ ~IsAdminUser(user)
               THEN Finish(s, Result(TRUE, "", << >>), c)
               ELSE Finish(s, Result(TRUE, "", rows), c)
        /\ UNCHANGED << athletes, audit_logs, next_id, config, cache, now,
                        session_state,
                    auth_vars >>

(***************************************************************************)
(* The steps of a session, by handler.                                      *)
(***************************************************************************)
SessionSteps(s) ==
    \/ \E si \in SignIns : set_user_session(s, si[1], si[2])
    \/ clear_session(s)

RegisterSteps(s) ==
    \/ \E d \in RegisterInputs, ok1, ok2 \in ReadOutcomes :
           RegisterSubmit(s, d, ok1, ok2)
    \/ \E ok \in ReadOutcomes : RegisterPageDup(s, ok)
    \/ \E ok \in ReadOutcomes : RegisterSvcDup(s, ok)
    \/ \E o \in WriteOutcomes \cup { "unique" } : RegisterInsert(s, o)
    \/ \E o \in WriteOutcomes : RegisterAudit(s, o)

BulkSteps(s) ==
    \/ \E rows \in BulkInputs, ok1, ok2 \in ReadOutcomes :
           BulkSubmit(s, rows, ok1, ok2)
    \/ \E ok \in ReadOutcomes : BulkDup(s, ok)
    \/ \E o \in WriteOutcomes \cup { "unique" } : BulkInsert(s, o)
    \/ \E o \in WriteOutcomes : BulkAudit(s, o)

UpdateSteps(s) ==
    \/ \E id \in 1..MaxRows, ch \in UpdateInputs, o \in StatementOutcomes :
           UpdateWrite(s, id, ch, o)
    \/ \E o \in WriteOutcomes : UpdateAudit(s, o)

DeleteSteps(s) ==
    \/ \E id \in 1..MaxRows, ok \in ReadOutcomes : DeleteFetch(s, id, ok)
    \/ \E o \in StatementOutcomes : DeleteRow(s, o)
    \/ \E o \in WriteOutcomes : DeleteAudit(s, o)

ConfigSteps(s) ==
    \E kv \in ConfigInputs, o \in WriteOutcomes :
        update_config(s, kv[1], kv[2], o)

LogSteps(s) ==
    \E limit \in LogLimits, f \in ActionFilters, ok \in ReadOutcomes :
        get_audit_logs(s, limit, f, ok)

Environment ==
    \/ Tick
    \/ \E k \in ConfigKeys : CacheExpire(k)

\* no other session is inside a handler
OthersIdle(s) == \A t \in Sessions \ { s } : pc[t] = "idle"

(***************************************************************************)
(* Initial states in which the sessions have signed in already: the store  *)
(* is as Init has it, session 1 is in one of the states of first and       *)
(* session 2 in one of second.                                             *)
(***************************************************************************)
InitSigned(first, second) ==
    /\ athletes = { }
    /\ audit_logs = << >>
    /\ next_id = 1
    /\ config = [ k \in ConfigKeys |->
                    IF k = "registration_open" THEN json_dumps(BoolV(TRUE))
                    ELSE NoneV ]
    /\ cache = [ k \in ConfigKeys |-> Miss ]
    /\ now = 0
    /\ session_state \in [ Sessions -> first \cup second ]
    /\ session_state[1] \in first
    /\ session_state[2] \in second
    /\ pc = [ s \in Sessions |-> "idle" ]
    /\ call = [ s \in Sessions |-> NoCall ]
    /\ res = [ s \in Sessions |-> NoneV ]
    /\ AuthInit

(***************************************************************************)
(* SpecSeq: the four mutations, one handler at a time.  Session 1 is the   *)
(* first coach, the administrator or nobody; session 2 the first coach,    *)
(* the second coach or a user who signed up and has no session yet.        *)
(***************************************************************************)
InitSeq ==
    InitSigned({ Signed("u1", TRUE), Signed("adm", TRUE), LoggedOut },
               { Signed("u1", TRUE), Signed("u2", TRUE), Signed("u4", FALSE) })

NextSeq ==
    \E s \in Sessions :
        /\ OthersIdle(s)
        /\ \/ RegisterSteps(s)
           \/ BulkSteps(s)
           \/ UpdateSteps(s)
           \/ DeleteSteps(s)
           \/ Return(s)

SpecSeq == InitSeq /\ [][NextSeq]_vars

(***************************************************************************)
(* SpecRace: Register and BulkRegister of two sessions, their store calls  *)
(* interleaved in any order.                                               *)
(***************************************************************************)
NextRace ==
    \E s \in Sessions :
        \/ RegisterSteps(s)
        \/ BulkSteps(s)
        \/ Return(s)

SpecRace == InitSeq /\ [][NextRace]_vars

(***************************************************************************)
(* SpecMut: Register, Update and Delete of two sessions, their store calls *)
(* interleaved in any order.  Session 1 is the first coach or the          *)
(* administrator, session 2 the first or the second coach.                 *)
(***************************************************************************)
InitMut ==
    InitSigned({ Signed("u1", TRUE), Signed("adm", TRUE) },
               { Signed("u1", TRUE), Signed("u2", TRUE) })

NextMut ==
    \E s \in Sessions :
        \/ RegisterSteps(s)
        \/ UpdateSteps(s)
        \/ DeleteSteps(s)
        \/ Return(s)

SpecMut == InitMut /\ [][NextMut]_vars

(***************************************************************************)
(* SpecGate: registrations against the gate.  Session 1 is the             *)
(* administrator and session 2 the first coach; the store calls of the     *)
(* sessions interleave, the clock runs and the cache of get_config runs    *)
(* out.                                                                    *)
(***************************************************************************)
InitGate == InitSigned({ Signed("adm", TRUE) }, { Signed("u1", TRUE) })

NextGate ==
    \/ \E s \in Sessions :
           \/ RegisterSteps(s)
           \/ BulkSteps(s)
           \/ ConfigSteps(s)
           \/ Return(s)
    \/ Environment

SpecGate == InitGate /\ [][NextGate]_vars

(***************************************************************************)
(* SpecAll: every operation of the system, one handler at a time.          *)
(***************************************************************************)
NextAll ==
    \E s \in Sessions :
        /\ OthersIdle(s)
        /\ \/ RegisterSteps(s)
           \/ BulkSteps(s)
           \/ UpdateSteps(s)
           \/ DeleteSteps(s)
           \/ ConfigSteps(s)
           \/ LogSteps(s)
           \/ Return(s)

SpecAll == InitGate /\ [][NextAll]_vars

(***************************************************************************)
(* SpecValidate: validate_athlete_data on its own.  Session 1 holds a      *)
(* record drawn from ValidateInputs and calls the validators on it.        *)
(***************************************************************************)
\* a weight that float() does not take
NotANumber == [kind |-> "text"]

ValidateNames == { << >>, << "A" >>, NameAnn }

\* no date, an unreadable one, today, yesterday, and the days on the two
\* sides of the 3-year limit (1095.75 days) and of the 100-year limit
\* (36525 days)
ValidateDates ==
    { NoneV, BadDateText, DateV(Today), DateV(Today - 1),
      DateV(Today - 1095), DateV(Today - 1096),
      DateV(Today - 36525), DateV(Today - 36526) }

ValidateWeights == { NoneV, NotANumber, Num(MinWeight - 1), Num(MaxWeight) }

ValidateInputs ==
    [ full_name : ValidateNames,
      date_of_birth : ValidateDates,
      gender : { "", "Other", "Female" },
      belt_rank : { "", "Pink", "Green" },
      weight_kg : ValidateWeights,
      competition_day : { "", "Day 3", "Both" },
      kata_event : BOOLEAN,
      kumite_event : BOOLEAN ]

InitValidate ==
    /\ athletes = { }
    /\ audit_logs = << >>
    /\ next_id = 1
    /\ config = [ k \in ConfigKeys |->
                    IF k = "registration_open" THEN json_dumps(BoolV(TRUE))
                    ELSE NoneV ]
    /\ cache = [ k \in ConfigKeys |-> Miss ]
    /\ now = 0
    /\ session_state = [ s \in Sessions |-> LoggedOut ]
    /\ pc = [ s \in Sessions |-> "idle" ]
    /\ \E d \in ValidateInputs :
           call = [ s \in Sessions |->
                      IF s = 1 THEN [ NoCall EXCEPT !.op = "validate", !.rec = d ]
                      ELSE NoCall ]
    /\ res = [ s \in Sessions |-> NoneV ]
    /\ AuthInit

\* is_valid, errors = validate_athlete_data(data)
ValidateRecord(s) ==
    LET validation == validate_athlete_data(call[s].rec) IN
    /\ pc[s] = "idle"
    /\ call[s].op = "validate"
    /\ pc' = [ pc EXCEPT ![s] = "done" ]
    /\ res' = [ res EXCEPT
                  ![s] = Result(validation[1],
                                IF validation[1] THEN "" ELSE "validation",
                                validation[2]) ]
    /\ UNCHANGED << athletes, audit_logs, next_id, config, cache, now,
                    session_state, call,
                    auth_vars >>

NextValidate == \E s \in Sessions : ValidateRecord(s)

SpecValidate == InitValidate /\ [][NextValidate]_vars

(***************************************************************************)
(* SpecConfig: the Settings page and the readers of the configuration.     *)
(* Session 1 is the administrator and session 2 the first coach; the       *)
(* cache of get_config is shared by the sessions and runs out.             *)
(***************************************************************************)
SettingsKeys == { "registration_open", "tournament_name", "tournament_dates" }

\* what the Settings page saves (lines 109, 158, 190): a name the
\* administrator typed, the dates, the switch
SettingsInputs ==
    { << "registration_open", BoolV(FALSE) >>,
      << "tournament_name", StrV("Open Cup", 0) >>,
      << "tournament_name", StrV("123", 0) >>,
      << "tournament_name", StrV("true", 0) >>,
      << "tournament_dates", DatesV >> }

InitConfig ==
    /\ athletes = { }
    /\ audit_logs = << >>
    /\ next_id = 1
    /\ config = [ k \in SettingsKeys |->
                    IF k = "registration_open" THEN json_dumps(BoolV(TRUE))
                    ELSE NoneV ]
    /\ cache = [ k \in SettingsKeys |-> Miss ]
    /\ now = 0
    /\ session_state =
           [ s \in Sessions |->
               IF s = 1 THEN Signed("adm", TRUE) ELSE Signed("u1", TRUE) ]
    /\ pc = [ s \in Sessions |-> "idle" ]
    /\ call = [ s \in Sessions |-> NoCall ]
    /\ res = [ s \in Sessions |-> NoneV ]
    /\ AuthInit

\* a page reads one setting: get_config(key) and what it leaves in the
\* cache; lookup_failed says the store was asked and did not answer
ReadConfig(s, key, read_ok) ==
    LET r == get_config(cache, key, read_ok)
        c == [ NoCall EXCEPT !.op = "get_config", !.rec = [ key |-> key ],
                             !.lookup_failed = cache[key] = Miss /\ ~read_ok ]
    IN  /\ pc[s] = "idle"
        /\ cache' = r[2]
        /\ Finish(s, Result(TRUE, "", r[1]), c)
        /\ UNCHANGED << athletes, audit_logs, next_id, config, now,
                        session_state,
                    auth_vars >>

NextConfig ==
    \/ \E s \in Sessions :
           \/ \E kv \in SettingsInputs, o \in WriteOutcomes :
                  update_config(s, kv[1], kv[2], o)
           \/ \E k \in SettingsKeys, ok \in ReadOutcomes : ReadConfig(s, k, ok)
           \/ Return(s)
    \/ \E k \in SettingsKeys : CacheExpire(k)

SpecConfig == InitConfig /\ [][NextConfig]_vars

(***************************************************************************)
(* SpecAuth: who gets a session.  whitelist.py, auth_handler.py, the       *)
(* restore of session.py, the onboarding page and the Manage Access page,  *)
(* for the administrator and for u4, who is not on the whitelist at first. *)
(* Every handler stops at the calls it makes to the identity provider.     *)
(***************************************************************************)
AuthUsers == { "adm", "u4" }

\* an email as it is typed or as the identity provider reports it: the
\* address of user u in lower case ("plain"), or with capitals and blanks
EmailForms == { "plain", "mixed" }

TypedEmail(u, form) == [ user |-> u, form |-> form ]

\* email.lower().strip()
lower_strip(e) == [ e EXCEPT !.form = "plain" ]

\* the rows of allowed_emails whose email column equals e; the table holds
\* lower-case addresses (add_allowed_email, line 61)
WhitelistRows(e) ==
    IF e.form = "plain" THEN allowed_emails[e.user] ELSE NoneV

\* a whitelist check that lets everybody in when the lookup fails
check_email_whitelist_open(email, read_ok) ==
    LET data == WhitelistRows(lower_strip(email))
    IN  IF ~read_ok THEN [ allowed |-> TRUE, is_admin |-> FALSE ]
        ELSE IF data = NoneV THEN [ allowed |-> FALSE, is_admin |-> FALSE ]
        ELSE [ allowed |-> TRUE, is_admin |-> data.is_admin ]

\* check_email_whitelist(email), whitelist.py lines 6-27
check_email_whitelist(email, read_ok) ==
    LET data == WhitelistRows(lower_strip(email))
    IN  IF ~read_ok \/ data = NoneV
        THEN [ allowed |-> FALSE, is_admin |-> FALSE ]
        ELSE [ allowed |-> TRUE, is_admin |-> data.is_admin ]

\* the locals of a handler that has asked the whitelist about email: row is
\* the entry the table held for it when it was asked, NoneV if it held none
\* or did not answer
Asked(op, email, read_ok) ==
    [ NoCall EXCEPT
        !.op = op,
        !.rec = [ email |-> email,
                  whitelist |-> check_email_whitelist(email, read_ok) ],
        !.lookup_failed = ~read_ok,
        !.row = IF read_ok THEN allowed_emails[email.user] ELSE NoneV ]

NotAuthorized ==
    Result(FALSE, "Your email is not authorized. Please contact the administrator.",
           NoneV)

\* load_coach_profile() on a session that has just got its user, lines
\* 124-147: a coaches row sets coach and is_admin; no row leaves is_admin as
\* it is; a failed read leaves both
ProfileLoaded(state, profile_ok) ==
    LET coach == coaches[state.user]
    IN  IF ~profile_ok THEN state
        ELSE IF coach = NoneV THEN [ state EXCEPT !.coach = NoneV ]
        ELSE [ state EXCEPT !.coach = coach, !.is_admin = coach.is_admin ]

\* st.session_state after set_user_session(user, session, is_admin), lines
\* 38-45, and after lines 108-111 of the restore
SessionSet(u, has_session, is_admin, profile_ok) ==
    ProfileLoaded([ user |-> u, session |-> has_session, coach |-> NoneV,
                    is_admin |-> is_admin ], profile_ok)

\* the login page, lines 128-133, and sign_in_with_email, lines 60-66
SignInCheck(s, email, read_ok) ==
    LET c == Asked("sign_in", email, read_ok)
    IN  /\ pc[s] = "idle"
        /\ session_state[s].user = NoUser
        /\ IF c.rec.whitelist.allowed
               THEN /\ pc' = [ pc EXCEPT ![s] = "sign_in" ]
                    /\ call' = [ call EXCEPT ![s] = c ]
                    /\ UNCHANGED res
           ELSE Finish(s, NotAuthorized, c)
        /\ UNCHANGED << athletes, audit_logs, next_id, config, cache, now,
                        session_state, auth_vars >>

\* sign_in_with_email, lines 68-94, and the login page, lines 135-144
SignInAuth(s, outcome, profile_ok) ==
    LET u == call[s].rec.email.user
    IN  /\ pc[s] = "sign_in"
        /\ IF outcome = "ok"
               THEN /\ session_state' =
                           [ session_state EXCEPT ![s] =
                               SessionSet(u, TRUE,
                                          call[s].rec.whitelist.is_admin,
                                          profile_ok) ]
                    /\ cookies' = [ cookies EXCEPT ![s] = u ]
                    /\ Finish(s, Result(TRUE, "", NoneV), call[s])
           ELSE /\ Finish(s, Result(FALSE, "Invalid email or password.", NoneV),
                          call[s])
                /\ UNCHANGED << session_state, cookies >>
        /\ UNCHANGED << athletes, audit_logs, next_id, config, cache, now,
                        allowed_emails, coaches >>

\* the login page, lines 158-167, and sign_up_with_email, lines 18-24
SignUpCheck(s, email, read_ok) ==
    LET c == Asked("sign_up", email, read_ok)
    IN  /\ pc[s] = "idle"
        /\ session_state[s].user = NoUser
        /\ IF c.rec.whitelist.allowed
               THEN /\ pc' = [ pc EXCEPT ![s] = "sign_up" ]
                    /\ call' = [ call EXCEPT ![s] = c ]
                    /\ UNCHANGED res
           ELSE Finish(s, NotAuthorized, c)
        /\ UNCHANGED << athletes, audit_logs, next_id, config, cache, now,
                        session_state, auth_vars >>

\* sign_up_with_email, lines 26-52, and the login page, lines 169-178: the
\* provider returns the new user, with a session or (confirmation pending)
\* without one; persist_session_to_cookie writes no cookie without one
SignUpAuth(s, outcome, has_session, profile_ok) ==
    LET u == call[s].rec.email.user
    IN  /\ pc[s] = "sign_up"
        /\ IF outcome = "ok"
               THEN /\ session_state' =
                           [ session_state EXCEPT ![s] =
                               SessionSet(u, has_session,
                                          call[s].rec.whitelist.is_admin,
                                          profile_ok) ]
                    /\ cookies' = [ cookies EXCEPT ![s] =
                                      IF has_session THEN u ELSE @ ]
                    /\ Finish(s, Result(TRUE, "", NoneV), call[s])
           ELSE /\ Finish(s, Result(FALSE, "Signup failed. Please try again.",
                                    NoneV), call[s])
                /\ UNCHANGED << session_state, cookies >>
        /\ UNCHANGED << athletes, audit_logs, next_id, config, cache, now,
                        allowed_emails, coaches >>

\* handle_oauth_callback, lines 127-149: the code of the redirect is
\* exchanged for the session of the Google account's user, with the
\* address as the provider keeps it
OAuthExchange(s, u, outcome) ==
    LET c == [ NoCall EXCEPT
                 !.op = "oauth",
                 !.rec = [ email |-> TypedEmail(u, "plain") ] ]
    IN  /\ pc[s] = "idle"
        /\ session_state[s].user = NoUser
        /\ IF outcome = "ok"
               THEN /\ pc' = [ pc EXCEPT ![s] = "oauth" ]
                    /\ call' = [ call EXCEPT ![s] = c ]
                    /\ UNCHANGED res
           ELSE Finish(s, NoneV, c)
        /\ UNCHANGED << athletes, audit_logs, next_id, config, cache, now,
                        session_state, auth_vars >>

\* handle_oauth_callback, lines 151-170, and app.py, lines 38-48
OAuthWhitelist(s, read_ok, profile_ok) ==
    LET email == call[s].rec.email
        c == Asked("oauth", email, read_ok)
    IN  /\ pc[s] = "oauth"
        /\ IF c.rec.whitelist.allowed
               THEN /\ session_state' =
                           [ session_state EXCEPT ![s] =
                               SessionSet(email.user, TRUE,
                                          c.rec.whitelist.is_admin,
                                          profile_ok) ]
                    /\ cookies' = [ cookies EXCEPT ![s] = email.user ]
                    /\ Finish(s, Result(TRUE, "", NoneV), c)
           ELSE /\ Finish(s, NotAuthorized, c)
                /\ UNCHANGED << session_state, cookies >>
        /\ UNCHANGED << athletes, audit_logs, next_id, config, cache, now,
                        allowed_emails, coaches >>

\* the browser opens the app anew: st.session_state starts from its
\* defaults, the cookie is still there
Reload(s) ==
    /\ pc[s] = "idle"
    /\ session_state[s].user # NoUser
    /\ session_state' = [ session_state EXCEPT ![s] = LoggedOut ]
    /\ UNCHANGED << athletes, audit_logs, next_id, config, cache, now, pc,
                    call, res, auth_vars >>

\* restore_session_from_cookie, lines 78-101 and 115-120: the tokens of the
\* cookie are given to the provider, which reports the user and their
\* address as it keeps it; tokens it does not take clear the cookie
RestoreSetSession(s, outcome) ==
    LET c == [ NoCall EXCEPT
                 !.op = "restore",
                 !.rec = [ email |-> TypedEmail(cookies[s], "plain") ] ]
    IN  /\ pc[s] = "idle"
        /\ session_state[s].user = NoUser
        /\ cookies[s] # NoUser
        /\ IF outcome = "ok"
               THEN /\ pc' = [ pc EXCEPT ![s] = "restore" ]
                    /\ call' = [ call EXCEPT ![s] = c ]
                    /\ UNCHANGED << res, cookies >>
           ELSE /\ cookies' = [ cookies EXCEPT ![s] = NoUser ]
                /\ Finish(s, NoneV, c)
        /\ UNCHANGED << athletes, audit_logs, next_id, config, cache, now,
                        session_state, allowed_emails, coaches >>

\* restore_session_from_cookie, lines 103-114
RestoreWhitelist(s, read_ok, profile_ok) ==
    LET email == call[s].rec.email
        c == Asked("restore", email, read_ok)
    IN  /\ pc[s] = "restore"
        /\ IF c.rec.whitelist.allowed
               THEN /\ session_state' =
                           [ session_state EXCEPT ![s] =
                               SessionSet(email.user, TRUE,
                                          c.rec.whitelist.is_admin,
                                          profile_ok) ]
                    /\ Finish(s, Result(TRUE, "", NoneV), c)
                    /\ UNCHANGED cookies
           ELSE /\ cookies' = [ cookies EXCEPT ![s] = NoUser ]
                /\ Finish(s, NotAuthorized, c)
                /\ UNCHANGED session_state
        /\ UNCHANGED << athletes, audit_logs, next_id, config, cache, now,
                        allowed_emails, coaches >>

\* the profile the onboarding page inserts, lines 137-145
NewCoach(u, is_admin) ==
    [ id |-> u, dojo_id |-> "d1", dojo_name |-> "Dojo One",
      is_admin |-> is_admin, kind |-> "coach" ]

\* complete_onboarding, pages/2 lines 128-166, for a signed-in user whose
\* session has no profile: the whitelist says whether the new profile is an
\* admin's; a profile that exists already is loaded instead
complete_onboarding(s, read_ok, outcome, profile_ok) ==
    LET u == get_current_user(s)
        whitelist == check_email_whitelist(TypedEmail(u, "plain"), read_ok)
        c == [ NoCall EXCEPT !.op = "onboarding",
                             !.lookup_failed = ~read_ok ]
    IN  /\ pc[s] = "idle"
        /\ u # NoUser
        /\ session_state[s].coach = NoneV
        /\ IF ~session_state[s].session \/ outcome # "ok"
               THEN /\ Finish(s, Result(FALSE, "storage error", NoneV), c)
                    /\ UNCHANGED << coaches, session_state >>
           ELSE IF coaches[u] # NoneV
               THEN /\ session_state' =
                           [ session_state EXCEPT
                               ![s] = ProfileLoaded(@, profile_ok) ]
                    /\ Finish(s, Result(FALSE, "Profile already exists.",
                                        NoneV), c)
                    /\ UNCHANGED coaches
           ELSE /\ coaches' = [ coaches EXCEPT
                                  ![u] = NewCoach(u, whitelist.is_admin) ]
                /\ session_state' =
                       [ session_state EXCEPT
                           ![s] = IF profile_ok
                                  THEN [ @ EXCEPT
                                           !.coach = coaches'[u],
                                           !.is_admin = coaches'[u].is_admin ]
                                  ELSE @ ]
                /\ Finish(s, Result(TRUE, "", NoneV), c)
        /\ UNCHANGED << athletes, audit_logs, next_id, config, cache, now,
                        allowed_emails, cookies >>

\* the guards at the top of the Manage Access page, lines 28-30
ManagesAccess(s) ==
    /\ session_state[s].user # NoUser
    /\ session_state[s].coach # NoneV
    /\ session_state[s].is_admin

\* the three writers take the token of st.session_state.session, which
\* raises without a session; the store then writes ("ok"), writes nothing
\* ("empty") or raises ("error")
WhitelistWrite(s, outcome) ==
    IF session_state[s].session THEN outcome ELSE "error"

\* add_allowed_email, pages/9 lines 53-72, from the form of lines 147-165
add_allowed_email(s, target, is_admin, outcome) ==
    LET c == [ NoCall EXCEPT !.op = "add_email" ]
    IN  /\ pc[s] = "idle"
        /\ ManagesAccess(s)
        /\ IF WhitelistWrite(s, outcome) = "ok"
              /\ allowed_emails[target] = NoneV
               THEN /\ allowed_emails' =
                           [ allowed_emails EXCEPT ![target] = Entry(is_admin) ]
                    /\ Finish(s, Result(TRUE, "", NoneV), c)
           ELSE /\ Finish(s, Result(FALSE, "storage error", NoneV), c)
                /\ UNCHANGED allowed_emails
        /\ UNCHANGED << athletes, audit_logs, next_id, config, cache, now,
                        session_state, coaches, cookies >>

\* remove_allowed_email, pages/9 lines 75-85, from the buttons of lines
\* 229-232, which the page does not show for the user's own entry
remove_allowed_email(s, target, outcome) ==
    LET c == [ NoCall EXCEPT !.op = "remove_email" ]
    IN  /\ pc[s] = "idle"
        /\ ManagesAccess(s)
        /\ target # get_current_user(s)
        /\ allowed_emails[target] # NoneV
        /\ IF WhitelistWrite(s, outcome) = "ok"
               THEN /\ allowed_emails' =
                           [ allowed_emails EXCEPT ![target] = NoneV ]
                    /\ Finish(s, Result(TRUE, "", NoneV), c)
           ELSE /\ Finish(s, Result(WhitelistWrite(s, outcome) # "error", "",
                                    NoneV), c)
                /\ UNCHANGED allowed_emails
        /\ UNCHANGED << athletes, audit_logs, next_id, config, cache, now,
                        session_state, coaches, cookies >>

\* update_admin_status, pages/9 lines 88-101, from the buttons of lines
\* 218-226: "Remove Admin" on an admin's entry, "Make Admin" on a coach's
update_admin_status(s, target, outcome) ==
    LET c == [ NoCall EXCEPT !.op = "admin_status" ]
    IN  /\ pc[s] = "idle"
        /\ ManagesAccess(s)
        /\ target # get_current_user(s)
        /\ allowed_emails[target] # NoneV
        /\ IF WhitelistWrite(s, outcome) = "ok"
               THEN /\ allowed_emails' =
                           [ allowed_emails EXCEPT
                               ![target] = Entry(~@.is_admin) ]
                    /\ Finish(s, Result(TRUE, "", NoneV), c)
           ELSE /\ Finish(s, Result(WhitelistWrite(s, outcome) # "error", "",
                                    NoneV), c)
                /\ UNCHANGED allowed_emails
        /\ UNCHANGED << athletes, audit_logs, next_id, config, cache, now,
                        session_state, coaches, cookies >>

AuthOutcomes == { "ok", "refused" }

InitAuth ==
    /\ athletes = { }
    /\ audit_logs = << >>
    /\ next_id = 1
    /\ config = [ k \in ConfigKeys |->
                    IF k = "registration_open" THEN json_dumps(BoolV(TRUE))
                    ELSE NoneV ]
    /\ cache = [ k \in ConfigKeys |-> Miss ]
    /\ now = 0
    /\ session_state = [ s \in Sessions |-> LoggedOut ]
    /\ pc = [ s \in Sessions |-> "idle" ]
    /\ call = [ s \in Sessions |-> NoCall ]
    /\ res = [ s \in Sessions |-> NoneV ]
    /\ allowed_emails = [ u \in Users |->
                            IF u = "u4" THEN NoneV ELSE Entry(IsAdminUser(u)) ]
    /\ coaches = [ u \in Users |-> CoachRow(u) ]
    /\ cookies = [ s \in Sessions |-> NoUser ]

NextAuth ==
    \E s \in Sessions :
        \/ \E u \in AuthUsers, f \in EmailForms, ok \in ReadOutcomes :
               SignInCheck(s, TypedEmail(u, f), ok)
        \/ \E o \in AuthOutcomes, ok \in ReadOutcomes : SignInAuth(s, o, ok)
        \/ \E u \in AuthUsers, f \in EmailForms, ok \in ReadOutcomes :
               SignUpCheck(s, TypedEmail(u, f), ok)
        \/ \E o \in AuthOutcomes, has \in BOOLEAN, ok \in ReadOutcomes :
               SignUpAuth(s, o, has, ok)
        \/ \E u \in AuthUsers, o \in AuthOutcomes : OAuthExchange(s, u, o)
        \/ \E ok1, ok2 \in ReadOutcomes : OAuthWhitelist(s, ok1, ok2)
        \/ Reload(s)
        \/ clear_session(s)
        \/ \E o \in AuthOutcomes : RestoreSetSession(s, o)
        \/ \E ok1, ok2 \in ReadOutcomes : RestoreWhitelist(s, ok1, ok2)
        \/ \E ok1, ok2 \in ReadOutcomes, o \in StatementOutcomes :
               complete_onboarding(s, ok1, o, ok2)
        \/ \E u \in AuthUsers, a \in BOOLEAN, o \in WriteOutcomes :
               add_allowed_email(s, u, a, o)
        \/ \E u \in AuthUsers, o \in WriteOutcomes :
               remove_allowed_email(s, u, o)
        \/ \E u \in AuthUsers, o \in WriteOutcomes :
               update_admin_status(s, u, o)
        \/ Return(s)

SpecAuth == InitAuth /\ [][NextAuth]_vars

(***************************************************************************)
(* Spec: everything, from the first sign-in on.                            *)
(***************************************************************************)
Next ==
    \/ \E s \in Sessions :
           \/ SessionSteps(s)
           \/ RegisterSteps(s)
           \/ BulkSteps(s)
           \/ UpdateSteps(s)
           \/ DeleteSteps(s)
           \/ ConfigSteps(s)
           \/ LogSteps(s)
           \/ Return(s)
    \/ Environment

Spec == Init /\ [][Next]_vars

(***************************************************************************)
(* Properties.                                                             *)
(***************************************************************************)
\* the handler of session s has returned from operation op
Done(s, op) == pc[s] = "done" /\ call[s].op = op

ClosedError == "Registration is currently closed"

DuplicateErrors ==
    { "An athlete with this date of birth already exists in your dojo",
      "Athlete with this date of birth already exists in your dojo",
      "Athlete already exists" }

InsertFaults == { "Failed to register athlete", "storage error" }

\* session s acts for a dojo, with a coach profile and a session
ActsForDojo(s) ==
    /\ session_state[s].session
    /\ get_current_coach(s).kind = "coach"
    /\ get_current_coach(s).dojo_id # ""

\* the live rows with the (trimmed name, date of birth) of rec in a dojo
RowsOfPair(rec, dojo_id) ==
    { r \in athletes : /\ r.full_name = Strip(rec.full_name)
                       /\ r.date_of_birth = rec.date_of_birth
                       /\ r.dojo_id = dojo_id }

UniqueTriple ==
    (\E r1, r2 \in athletes : r1 # r2 /\ SameTriple(r1, r2))
        => \E s \in Sessions : call[s].lookup_failed

\* the gate as the store has it at this moment: the registration_open row
\* holds true and the deadline, if one is stored, has not passed
StoredGateOpen ==
    /\ config["registration_open"] = json_dumps(BoolV(TRUE))
    /\ ~(/\ config["registration_deadline"].kind = "str"
         /\ config["registration_deadline"].s = "iso"
         /\ now > config["registration_deadline"].t)

\* C3: an athlete row is inserted only at a moment when registration is open
InsertOnlyWhileOpen ==
    [][ (athletes' \ athletes # { }) => StoredGateOpen ]_vars

\* C4: a Register call of a record the validators reject, once past the
\* gate, stops at the validation: it returns the failure that carries the
\* validators' error list, and has written no athlete row and no audit entry
InvalidRecordNotWritten ==
    \A s \in Sessions :
        (/\ call[s].op = "register"
         /\ ~validate_athlete_data(call[s].rec)[1])
        => /\ pc[s] = "done"
           /\ ~res[s].success
           /\ res[s].error \in { ClosedError, "validation" }
           /\ res[s].error = "validation"
                  => /\ res[s].value = validate_athlete_data(call[s].rec)[2]
                     /\ res[s].value # << >>
           /\ call[s].ath_writes = 0
           /\ call[s].aud_writes = 0

\* C4 happens: a Register call returned the validators' errors while the
\* gate was open
InvalidRecordRefused ==
    \E s \in Sessions :
        /\ Done(s, "register")
        /\ res[s].error = "validation"
        /\ Len(res[s].value) >= 1
        /\ ~validate_athlete_data(call[s].rec)[1]

\* C5: the step in which a Register call returns a failure leaves the
\* athletes table and the audit log as they are, and the call has written
\* neither a row nor an entry in its earlier steps
FailedRegisterWritesNothing ==
    [][ \A s \in Sessions :
            (/\ pc[s] # "done"
             /\ pc'[s] = "done"
             /\ call'[s].op = "register"
             /\ ~res'[s].success)
            => /\ athletes' = athletes
               /\ audit_logs' = audit_logs
               /\ call[s].ath_writes = 0 /\ call'[s].ath_writes = 0
               /\ call[s].aud_writes = 0 /\ call'[s].aud_writes = 0 ]_vars

\* C5 happens: a Register call has failed at its insert, which answered
\* without a row, while the table holds a row of another call
RegisterFailedAtInsert ==
    \E s \in Sessions :
        /\ Done(s, "register")
        /\ ~res[s].success
        /\ res[s].error = "Failed to register athlete"
        /\ athletes # { }

\* C6: a Register call that returned success has written exactly one athlete
\* row, the one it returns, which is live and carries the acting coach's
\* dojo_id and the acting user's id as coach_id; unless its audit write
\* failed it has appended exactly one entry, a REGISTER entry of the actor
\* for that record; and no Register call writes an audit entry before its
\* insert
SuccessfulRegisterScoped ==
    \A s \in Sessions :
        /\ (Done(s, "register") /\ res[s].success)
           => /\ call[s].ath_writes = 1
              /\ res[s].value \in athletes
              /\ res[s].value.dojo_id = get_current_coach(s).dojo_id
              /\ res[s].value.coach_id = get_current_user(s)
              /\ call[s].audit_failed => call[s].aud_writes = 0
              /\ ~call[s].audit_failed
                    => /\ call[s].aud_writes = 1
                       /\ \E i \in 1..Len(audit_logs) :
                              /\ audit_logs[i].action = "REGISTER"
                              /\ audit_logs[i].coach_id = get_current_user(s)
                              /\ \A f \in DOMAIN audit_logs[i].athlete_data :
                                     audit_logs[i].athlete_data[f] = res[s].value[f]
        /\ (call[s].op = "register" /\ call[s].ath_writes = 0)
           => call[s].aud_writes = 0

\* C6 happens: a Register call returned success with its audit entry written
RegisterSucceeded ==
    \E s \in Sessions :
        /\ Done(s, "register")
        /\ res[s].success
        /\ ~call[s].audit_failed
        /\ Len(audit_logs) >= 1

\* the athlete change of the finished call of session s is in the table
ChangeApplied(s) ==
    CASE call[s].op = "register" -> res[s].value \in athletes
      [] call[s].op = "bulk" ->
            /\ call[s].ath_writes = res[s].value.successful
            /\ \A i \in 1..Len(res[s].value.results) :
                   res[s].value.results[i].success
                   => \E r \in athletes :
                         /\ r.full_name = Strip(res[s].value.results[i].name)
                         /\ r.coach_id = get_current_user(s)
      [] call[s].op = "update" ->
            \E r \in athletes :
                /\ r.id = call[s].id
                /\ \A f \in DOMAIN call[s].rec : r[f] = call[s].rec[f]
      [] call[s].op = "delete" -> \A r \in athletes : r.id # call[s].id
      [] OTHER -> FALSE

\* C7: with the handlers running one at a time, a Register, BulkRegister,
\* Update or Delete call whose audit write failed after its athlete write
\* still returns success, and its athlete change is in the table
AuditFailureSwallowed ==
    \A s \in Sessions :
        (pc[s] = "done" /\ call[s].audit_failed)
        => /\ call[s].op \in { "register", "bulk", "update", "delete" }
           /\ call[s].ath_writes >= 1
           /\ call[s].aud_writes = 0
           /\ res[s].success
           /\ ChangeApplied(s)

\* C7 happens: a Delete call returned after its audit write failed
DeleteAuditFailed ==
    \E s \in Sessions :
        /\ Done(s, "delete")
        /\ call[s].audit_failed
        /\ call[s].removed # NoneV

\* C8: every step of every operation leaves the audit entries that exist
\* where and as they are; the log changes only by growing at its end
AuditLogAppendOnly ==
    [][ /\ Len(audit_logs') >= Len(audit_logs)
        /\ \A i \in 1..Len(audit_logs) : audit_logs'[i] = audit_logs[i] ]_vars

\* C8 happens: the log holds two entries, a config update has gone through
\* and an administrator has just read the log
LogReadAfterAppends ==
    /\ Len(audit_logs) >= 2
    /\ config["registration_deadline"] # NoneV
    /\ \E s \in Sessions : Done(s, "logs") /\ Len(res[s].value) >= 1

\* the columns of an athletes row
AthleteFields ==
    { "id", "coach_id", "dojo_id", "full_name", "date_of_birth", "gender",
      "belt_rank", "weight_kg", "competition_day", "kata_event",
      "kumite_event", "updated_at" }

\* the log holds a DELETE entry of the actor of session s with this payload
DeleteLogged(s, payload) ==
    \E i \in 1..Len(audit_logs) :
        /\ audit_logs[i].action = "DELETE"
        /\ audit_logs[i].coach_id = get_current_user(s)
        /\ audit_logs[i].athlete_data = payload

DeleteOfMissingRow ==
    [][ \A s \in Sessions :
            (/\ pc[s] = "idle"
             /\ pc'[s] # "idle"
             /\ call'[s].op = "delete"
             /\ session_state[s].session
             /\ get_current_coach(s).kind = "coach"
             /\ { r \in athletes : /\ r.id = call'[s].id
                                    /\ RlsAllows(get_current_user(s), r) } = { })
            => /\ pc'[s] = "done"
               /\ ~res'[s].success
               /\ res'[s].error \in { "Athlete not found", "storage error" }
               /\ athletes' = athletes
               /\ audit_logs' = audit_logs
               /\ call'[s].ath_writes = 0
               /\ call'[s].aud_writes = 0 ]_vars

\* C10 happens: a Delete call returned the not-found failure and the table
\* still holds its rows
DeleteRefusedNotFound ==
    \E s \in Sessions :
        /\ Done(s, "delete")
        /\ res[s].error = "Athlete not found"
        /\ call[s].ath_writes = 0
        /\ call[s].aud_writes = 0
        /\ athletes # { }

(***************************************************************************)
(* BulkRegister, record by record.                                         *)
(***************************************************************************)
\* the rows of an uploaded file that validate_athlete_data turns down
InvalidRows(rows) ==
    SelectSeq(rows, LAMBDA r :
        ~validate_athlete_data([ r EXCEPT !.full_name = Strip(@) ])[1])

\* C11 (as the specification states it): when one BulkRegister has returned
\* its summary, successful + failed is the number of records of the input
\* batch, so that every invalid record of the batch is among the failed, and
\* the call added exactly successful rows.
BulkCountsEveryRecord ==
    \A s \in Sessions :
        (Done(s, "bulk") /\ res[s].success) =>
            /\ res[s].value.successful + res[s].value.failed = Len(call[s].rec)
            /\ res[s].value.failed >= Len(InvalidRows(call[s].rec))
            /\ call[s].ath_writes = res[s].value.successful

\* the names of the records a bulk call has inserted so far, in input order
InsertedNames(c) ==
    LET ok == SelectSeq(c.results, LAMBDA r : r.success)
    IN  [ i \in 1..Len(ok) |-> ok[i].name ]

\* session s takes a step of its bulk call
BulkStep(s) ==
    /\ << pc[s], call[s] >> # << pc'[s], call'[s] >>
    /\ call'[s].op = "bulk"

BulkInput(c) == parse_rows(c.rec)

\* session s is inside the loop of a bulk call or has returned its summary
BulkRunning(s) ==
    /\ call[s].op = "bulk"
    /\ \/ pc[s] \in { "bulk_dup", "bulk_insert", "bulk_audit" }
       \/ pc[s] = "done" /\ res[s].success

UpdateEntries(s) ==
    { i \in 1..Len(audit_logs) :
        /\ audit_logs[i].action = "UPDATE"
        /\ audit_logs[i].coach_id = get_current_user(s)
        /\ audit_logs[i].athlete_data.athlete_id = call[s].id }

\* C14 (as the specification states it): after an Update that returned
\* success and whose audit write went through, the log holds an UPDATE entry
\* of the actor with payload {athlete_id, changes}, where changes is the
\* field set the caller submitted, no field added and none dropped.
UpdateLogsSubmittedChanges ==
    \A s \in Sessions :
        (Done(s, "update") /\ res[s].success /\ ~call[s].audit_failed)
        => \E i \in UpdateEntries(s) :
               audit_logs[i].athlete_data.changes \in UpdateInputs

(***************************************************************************)
(* Who may do what.                                                        *)
(***************************************************************************)
MutationOps == { "register", "bulk", "update", "delete" }

\* the pcs at which a handler is about to write, or has written, to the store
WriteStages ==
    { "reg_insert", "reg_audit", "bulk_insert", "bulk_audit", "upd_audit",
      "del_delete", "del_audit" }

\* session s has no user, no coach profile or no session
ActorMissing(s) ==
    \/ session_state[s].user = NoUser
    \/ session_state[s].coach = NoneV
    \/ ~session_state[s].session

\* session s has a coach profile without a dojo
DojoMissing(s) ==
    /\ session_state[s].coach # NoneV
    /\ session_state[s].coach.dojo_id = ""

\* session s takes a step of a mutation
MutationStep(s) ==
    /\ << pc[s], call[s] >> # << pc'[s], call'[s] >>
    /\ call'[s].op \in MutationOps

\* C15: while the user, the coach profile or the session is missing, no step
\* of Register, BulkRegister, Update or Delete writes to athletes or to the
\* audit log or reaches a write, and what the call returns is a failure; the
\* same holds for Register and BulkRegister of a coach without a dojo.
MutationsFailClosed ==
    [][ \A s \in Sessions :
          (/\ MutationStep(s)
           /\ \/ ActorMissing(s)
              \/ DojoMissing(s) /\ call'[s].op \in { "register", "bulk" })
          => /\ athletes' = athletes
             /\ audit_logs' = audit_logs
             /\ next_id' = next_id
             /\ pc'[s] \notin WriteStages
             /\ pc'[s] = "done" => ~res'[s].success
      ]_vars

\* C15 happens: with a registered athlete in the table, the Delete of a user
\* without coach profile and session was turned down
MissingActorRefused ==
    \E s \in Sessions :
        /\ ActorMissing(s)
        /\ Done(s, "delete")
        /\ res[s].error = "Not authenticated"
        /\ \E r \in athletes : r.id = call[s].id
        /\ Len(audit_logs) = 1

\* the athlete the Update or Delete of session s names is another coach's,
\* and the actor of s is no administrator
ForeignTarget(s, c) ==
    /\ c.op \in { "update", "delete" }
    /\ \E r \in athletes :
           /\ r.id = c.id
           /\ r.coach_id # session_state[s].user
           /\ ~IsAdminUser(session_state[s].user)

\* C16: no step of an Update or Delete whose actor neither registered the
\* athlete nor is an administrator changes the athletes table or the audit
\* log; the call returns at once, with a failure.
ForeignActorRefused ==
    [][ \A s \in Sessions :
          (MutationStep(s) /\ ForeignTarget(s, call'[s]))
          => /\ athletes' = athletes
             /\ audit_logs' = audit_logs
             /\ pc'[s] = "done"
             /\ ~res'[s].success
             /\ call'[s].ath_writes = 0
             /\ call'[s].aud_writes = 0
      ]_vars

\* C16 happens: the second coach's Update of an athlete of the first coach
\* has come back as failed, the row still there
ForeignUpdateRefused ==
    \E s \in Sessions :
        /\ Done(s, "update")
        /\ ForeignTarget(s, call[s])
        /\ res[s].error = "Update failed"
        /\ \A i \in 1..Len(audit_logs) : audit_logs[i].action # "UPDATE"

\* C17 (as the specification states it): a call of Register, BulkRegister,
\* Update or Delete that has written an audit entry has, before that,
\* written to athletes, and that write changed a row; a call that is about
\* to write its audit entry has done so too.
AuditOnlyAfterEffect ==
    \A s \in Sessions :
        (/\ call[s].op \in MutationOps
         /\ \/ call[s].aud_writes >= 1
            \/ pc[s] \in { "reg_audit", "bulk_audit", "upd_audit", "del_audit" })
        => call[s].ath_writes >= 1

(***************************************************************************)
(* The validators.                                                         *)
(***************************************************************************)
\* the seven checks of a record, in the order the specification lists them:
\* name, date of birth, gender, belt rank, weight, competition day, events
SevenChecks(d) ==
    << validate_athlete_name(d.full_name),
       validate_date_of_birth(d.date_of_birth),
       validate_gender(d.gender),
       validate_belt_rank(d.belt_rank),
       validate_weight(d.weight_kg),
       validate_competition_day(d.competition_day),
       validate_events(d.kata_event, d.kumite_event) >>

\* the positions of the checks that fail on d
Failing(d) == { i \in 1..7 : ~SevenChecks(d)[i][1] }

\* C18: validate_athlete_data returns one error for each of the seven checks
\* that fails, whatever the other checks say, the errors in the order of the
\* checks (the k-th error is the message of the k-th failing check), and
\* valid is true exactly when the list is empty.
ValidateNeverShortCircuits ==
    \A s \in Sessions :
        Done(s, "validate") =>
            LET d == call[s].rec
                errors == res[s].value
            IN  /\ Len(errors) = Cardinality(Failing(d))
                /\ \A i \in Failing(d) :
                       errors[Cardinality({ j \in Failing(d) : j <= i })]
                           = SevenChecks(d)[i][2]
                /\ res[s].success <=> errors = << >>

\* C18 happens: a record on which all seven checks fail got seven errors
AllSevenFailed ==
    \E s \in Sessions :
        /\ Done(s, "validate")
        /\ Failing(call[s].rec) = 1..7
        /\ Len(res[s].value) = 7
        /\ ~res[s].success

\* days between a date of birth and today
AgeInDays(dob) == Today - dob.v

\* the date-of-birth check turned the record of session s down for its age
AgeRefused(s) ==
    \/ "Athlete must be at least 3 years old" \in Range(res[s].value)
    \/ "Invalid date of birth" \in Range(res[s].value)

\* session s has validated a record whose date of birth is before today
ValidatedPastDate(s) ==
    /\ Done(s, "validate")
    /\ call[s].rec.date_of_birth.kind = "date"
    /\ call[s].rec.date_of_birth.v < Today

\* C19 (as the specification states it): for a date of birth before today,
\* validation accepts the age exactly when it lies in [3, 100) years, at
\* 365.25 days per year: 4 * days >= 3 * 1461 and 4 * days < 100 * 1461, so
\* that 36525 days are turned down.
AgeWindowHalfOpen ==
    \A s \in Sessions :
        ValidatedPastDate(s) =>
            LET days == AgeInDays(call[s].rec.date_of_birth)
            IN  ~AgeRefused(s) <=> (4 * days >= 3 * 1461 /\ 4 * days < 100 * 1461)

\* C19 (amended): for a date of birth before today, validation accepts the
\* age exactly when it lies in [3, 100] years: 1096 days (the first whole
\* day count of at least 3 years) up to and including 36525 days (100.0
\* years); 1095 days and 36526 days are turned down.
AgeWindowClosed ==
    \A s \in Sessions :
        ValidatedPastDate(s) =>
            LET days == AgeInDays(call[s].rec.date_of_birth)
            IN  ~AgeRefused(s) <=> (days >= 1096 /\ days <= 36525)

\* C19 happens: a record whose athlete is exactly 100.0 years old was found
\* valid
HundredYearsAccepted ==
    \E s \in Sessions :
        /\ ValidatedPastDate(s)
        /\ AgeInDays(call[s].rec.date_of_birth) = 36525
        /\ res[s].success

\* C20: a record without kata and without kumite whose other six checks
\* pass is invalid with exactly one error, the at-least-one-event error.
NoEventsOneError ==
    \A s \in Sessions :
        (/\ Done(s, "validate")
         /\ ~call[s].rec.kata_event
         /\ ~call[s].rec.kumite_event
         /\ \A i \in 1..6 : SevenChecks(call[s].rec)[i][1])
        => /\ ~res[s].success
           /\ res[s].value =
                  << "At least one event (Kata or Kumite) must be selected" >>

\* C20 happens: an otherwise valid record without events has been validated
NoEventsValidated ==
    \E s \in Sessions :
        /\ Done(s, "validate")
        /\ call[s].rec = [ RecNoEvents EXCEPT !.date_of_birth = DateV(Today - 1096),
                                              !.competition_day = "Both" ]
        /\ Len(res[s].value) = 1

(***************************************************************************)
(* The store's uniqueness backstop.                                        *)
(***************************************************************************)
\* C21 (as the specification states it): an insert the store turned down
\* for uniqueness is reported as a duplicate: no Register and no record of a
\* BulkRegister comes back with the store's own message of the violation.
UniqueViolationTranslated ==
    \A s \in Sessions :
        /\ Done(s, "register") => res[s].error # UniqueViolationText
        /\ call[s].op = "bulk" =>
               \A i \in 1..Len(call[s].results) :
                   call[s].results[i].error # UniqueViolationText

(***************************************************************************)
(* What Update does to a row.                                              *)
(***************************************************************************)
\* C22 (as the specification states it): every live athlete row has at least
\* one of kata_event and kumite_event set and a weight that is absent or
\* within 10 to 200 kg.
LiveRowsKeepRules ==
    \A r \in athletes :
        /\ r.kata_event \/ r.kumite_event
        /\ r.weight_kg = NoneV
               \/ (r.weight_kg.v >= MinWeight /\ r.weight_kg.v <= MaxWeight)

\* what an athlete row is identified by and owned through
Identity(r) ==
    [ id |-> r.id, full_name |-> r.full_name,
      date_of_birth |-> r.date_of_birth, dojo_id |-> r.dojo_id,
      coach_id |-> r.coach_id ]

\* C23: no step of an Update adds or removes a row, changes a row other than
\* the one its athlete_id names, or changes the id, full name, date of birth,
\* dojo id or coach id of that one.
UpdateKeepsIdentity ==
    [][ \A s \in Sessions :
          (MutationStep(s) /\ call'[s].op = "update")
          => /\ { Identity(r) : r \in athletes }
                    = { Identity(r) : r \in athletes' }
             /\ Cardinality(athletes') = Cardinality(athletes)
             /\ \A r \in athletes : r.id # call'[s].id => r \in athletes'
      ]_vars

\* C23 happens: the administrator's Update of one of two rows of the first
\* coach has gone through and left the row with the coach
UpdateWentThrough ==
    \E s \in Sessions :
        /\ Done(s, "update") /\ res[s].success
        /\ get_current_user(s) = "adm"
        /\ Cardinality(athletes) = 2
        /\ \E r \in athletes :
               /\ r.id = call[s].id
               /\ r.coach_id = "u1"
               /\ r.belt_rank = "Blue"
               /\ r.updated_at # NoneV

(***************************************************************************)
(* The REGISTER entry.                                                     *)
(***************************************************************************)
\* C24 (as the specification states it): after a Register that returned
\* success and whose audit write went through, the log holds a REGISTER
\* entry of the actor whose payload is the stored record the call returns,
\* its id included.
RegisterLogsStoredRecord ==
    \A s \in Sessions :
        (Done(s, "register") /\ res[s].success /\ ~call[s].audit_failed)
        => \E i \in 1..Len(audit_logs) :
               /\ audit_logs[i].action = "REGISTER"
               /\ audit_logs[i].coach_id = get_current_user(s)
               /\ "id" \in DOMAIN audit_logs[i].athlete_data
               /\ audit_logs[i].athlete_data.id = res[s].value.id

(***************************************************************************)
(* The registration gate.                                                  *)
(***************************************************************************)
\* the stored deadline is a timestamp that has passed
StoredDeadlinePassed ==
    /\ config["registration_deadline"].kind = "str"
    /\ config["registration_deadline"].s = "iso"
    /\ now > config["registration_deadline"].t

\* C25 (as the specification states it): a Register or BulkRegister that
\* starts while the stored deadline has passed and no deadline is cached, so
\* that the gate has to read it from the store, is turned down as closed,
\* whether the store answers that read or not.
GateClosedWhateverTheRead ==
    [][ \A s \in Sessions :
          (/\ pc[s] = "idle"
           /\ call'[s].op \in { "register", "bulk" }
           /\ cache["registration_deadline"] = Miss
           /\ StoredDeadlinePassed)
          => /\ pc'[s] = "done"
             /\ res'[s].error = ClosedError
      ]_vars

(***************************************************************************)
(* Two Deletes of one athlete.                                             *)
(***************************************************************************)
\* the DELETE entries of the log for athlete id
DeleteEntriesOf(id) ==
    { i \in 1..Len(audit_logs) :
        /\ audit_logs[i].action = "DELETE"
        /\ audit_logs[i].athlete_data.id = id }

\* C26 (as stated): the log never holds more than one DELETE entry for an
\* athlete id, and two sessions never both hold the success of a Delete of
\* the same id.
OneDeletePerAthlete ==
    /\ \A id \in 1..MaxRows : Cardinality(DeleteEntriesOf(id)) <= 1
    /\ \A s, t \in Sessions :
           (/\ s # t
            /\ Done(s, "delete") /\ res[s].success
            /\ Done(t, "delete") /\ res[t].success)
           => call[s].id # call[t].id

(***************************************************************************)
(* The duplicate lookup that fails.                                        *)
(***************************************************************************)
\* C27 (as stated): a Register or BulkRegister that is about to insert a
\* record has had every duplicate lookup it made answered by the store, and
\* has a session.
InsertOnlyAfterAnsweredLookup ==
    \A s \in Sessions :
        pc[s] \in { "reg_insert", "bulk_insert" }
        => /\ ~call[s].lookup_failed
           /\ session_state[s].session

(***************************************************************************)
(* Settings written and read back.                                         *)
(***************************************************************************)
\* session s holds the success of an update_config whose value is still the
\* stored one of its key
LastUpdate(s) ==
    /\ Done(s, "config")
    /\ res[s].success
    /\ config[call[s].rec.key] =
           IF call[s].rec.value.kind = "str" THEN call[s].rec.value
           ELSE json_dumps(call[s].rec.value)

\* C28 (as stated): when update_config(key, v) has returned success and v is
\* still what the store holds, a get_config(key) that reads the store and is
\* answered returns a value equal to v.
ConfigRoundTrip ==
    [][ \A s, t \in Sessions :
          (/\ LastUpdate(s)
           /\ pc[t] = "idle"
           /\ call'[t].op = "get_config"
           /\ call'[t].rec.key = call[s].rec.key
           /\ cache[call[s].rec.key] = Miss
           /\ ~call'[t].lookup_failed)
          => res'[t].value = call[s].rec.value
      ]_vars

(***************************************************************************)
(* Who gets a session, and with which rights.                              *)
(***************************************************************************)
\* the step gives session s a user: a sign-in, a sign-up, an OAuth callback
\* or a cookie restore has gone through
SessionEstablished(s) ==
    /\ session_state[s].user = NoUser
    /\ session_state'[s].user # NoUser

\* C29 (as stated): a sign-in or a session restore of a user whose whitelist
\* entry is not an admin's, when the handler asked and now, never leaves
\* is_admin = TRUE in the session.
SessionAdminFollowsWhitelist ==
    [][ \A s \in Sessions :
          (/\ SessionEstablished(s)
           /\ call'[s].op \in { "sign_in", "oauth", "restore" }
           /\ ~call'[s].rec.whitelist.is_admin
           /\ allowed_emails[session_state'[s].user] # NoneV
           /\ ~allowed_emails[session_state'[s].user].is_admin)
          => ~session_state'[s].is_admin
      ]_vars

\* C30: a step that gives a session its user belongs to a handler whose
\* whitelist lookup was answered and found the entry of that user's email.
SessionOnlyForWhitelisted ==
    [][ \A s \in Sessions :
          SessionEstablished(s)
          => /\ call'[s].op \in { "sign_in", "sign_up", "oauth", "restore" }
             /\ call'[s].rec.email.user = session_state'[s].user
             /\ ~call'[s].lookup_failed
             /\ call'[s].row # NoneV
      ]_vars

\* u4, added to the whitelist by the administrator, has signed in with an
\* address typed in capitals, while a restore in the other browser was
\* refused because its whitelist lookup failed
WhitelistedAdmittedOthersRefused ==
    \E s, t \in Sessions :
        /\ Done(s, "sign_in")
        /\ res[s].success
        /\ session_state[s].user = "u4"
        /\ call[s].rec.email.form = "mixed"
        /\ Done(t, "restore")
        /\ call[t].lookup_failed
        /\ session_state[t].user = NoUser
        /\ cookies[t] = NoUser


\* C30 (as stated): whenever a step gives a session its user, the email of
\* that user is in allowed_emails at that moment.
SessionOnlyWhileListed ==
    [][ \A s \in Sessions :
          SessionEstablished(s)
          => allowed_emails[session_state'[s].user] # NoneV
      ]_vars

=============================================================================
